---- MODULE Spec2Model ----
(***************************************************************************)
(* OrderWarden: shipment tracking check, status normalization and          *)
(* delivery-risk classification.                                           *)
(*                                                                         *)
(* The repository holds several drafts of services/trackingService.js.     *)
(* Each draft is a "variant" of the model:                                 *)
(*   mock               src/src/services/trackingService.js lines 1-190    *)
(*   aftership_v4       src/src/services/trackingService.js lines 192-497  *)
(*   aftership_2024_07  src/unnamed/part_012                               *)
(*   track17            src/unnamed/part_011                               *)
(* and the stand-alone classifier calculateRisk of src/unnamed/part_016.   *)
(*                                                                         *)
(* JavaScript values are modelled as follows.  A string is a TLA+ string;  *)
(* the values null and undefined and a missing key are the marker strings  *)
(* NULL, UNDEFINED and ABSENT; a value that is not a string (an object or  *)
(* function) is NONSTRING.  A time argument is a record [k, t]: k says     *)
(* whether it is a valid date, null, undefined or an Invalid Date, and t   *)
(* is its epoch time in milliseconds when it is valid.  An object that may *)
(* be undefined is a record with the field defined.                        *)
(***************************************************************************)
EXTENDS Integers, Sequences, FiniteSets, TLC

VARIABLES
    variant,        \* which draft of trackingService.js is deployed
    apiKey,         \* whether the provider API key is configured
    now,            \* the clock: Date.now(), in milliseconds
    rc,             \* the latest direct call of the risk classifier
    memo,           \* the call before it, when rc repeats that call's arguments
    pc,             \* position of the checkTrackingStatus call in flight
    trackingNumber, \* its first argument
    carrier,        \* its second argument (the carrier hint)
    log,            \* outbound provider requests made by this call, in order
    held,           \* where a pending request was issued from
    result,         \* what checkTrackingStatus returned
    detected,       \* the latest direct call of a detectCarrier implementation
    template,       \* the latest call of getMessageTemplate
    orders,         \* the Order table: the checked fields of each row, by id
    orderEvent,     \* the OrderEvent table: its rows in creation order
    cron,           \* the POST /check-tracking sweep in flight
    bulk,           \* the dashboard's checkSelectedTracking run in flight
    request,        \* the POST /api/orders/:id/check request in flight
    normalizerCall, \* the latest direct call of a normalizer
    account,        \* the User row of the user who creates orders or subscribes
    post,           \* the POST /api/orders requests in flight
    etsy,           \* the Etsy shop's receipts and the POST /api/etsy/sync runs
    storeId,        \* the store each order is in (whose owner may read it)
    access          \* the GET or DELETE /api/orders/:id request in flight

vars == << variant, apiKey, now, rc, memo, pc, trackingNumber, carrier,
           log, held, result, detected, template,
           orders, orderEvent, cron, bulk, request,
           normalizerCall, account, post, etsy, storeId, access >>

\* the state of the tracking service proper, and the state beside it
serviceVars == << variant, apiKey, now, rc, memo, pc, trackingNumber, carrier,
                  log, held, result >>
storeVars == << orders, orderEvent, cron, bulk, request >>
laterVars == << normalizerCall, account, post, etsy, storeId, access >>
otherVars == << detected, template, orders, orderEvent, cron, bulk, request,
               normalizerCall, account, post, etsy, storeId, access >>

-----------------------------------------------------------------------------
(* Bounds of the model.                                                    *)

\* clock ticks (of one millisecond each) the classifier runs are followed for
MaxTicks == 2
\* age, in hours, of the oldest timestamp tried
MaxAgeHours == 340

-----------------------------------------------------------------------------
(* JavaScript values.                                                      *)

NULL == "<null>"
UNDEFINED == "<undefined>"
ABSENT == "<absent>"
NONSTRING == "<object>"
TYPE_ERROR == "<TypeError>"

\* (1000 * 60 * 60), the divisor of every hoursSinceUpdate
MsPerHour == 1000 * 60 * 60
\* (1000 * 60 * 60 * 24), the divisor of calculateRisk's days
MsPerDay == 1000 * 60 * 60 * 24

\* the clock reading at which a behaviour starts (TLC integers are 32 bits wide)
T0 == 400 * MsPerHour

DateAt(ms) == [k |-> "date", t |-> ms]
NullTime == [k |-> "null", t |-> 0]
UndefinedTime == [k |-> "undefined", t |-> 0]
InvalidDate == [k |-> "invalid", t |-> 0]
\* a key the object does not have
AbsentTime == [k |-> "absent", t |-> 0]

\* new Date(x).getTime(): null is the epoch, undefined and unparseable input
\* give NaN, which is modelled by nan = TRUE.
newDate(x) ==
    CASE x.k = "date" -> [nan |-> FALSE, ms |-> x.t]
      [] x.k = "null" -> [nan |-> FALSE, ms |-> 0]
      [] OTHER -> [nan |-> TRUE, ms |-> 0]

\* JavaScript truthiness of a time argument: null and undefined are falsy, a
\* Date object or a non-empty date string is truthy even when it is invalid.
Truthy(x) == x.k \in {"date", "invalid"}

\* (nowMs - new Date(x)) / (1000 * 60 * 60) > h; every comparison with NaN is false
hoursSinceUpdateGT(nowMs, x, h) ==
    LET d == newDate(x) IN (~d.nan) /\ (nowMs - d.ms > h * MsPerHour)

\* String.prototype.toLowerCase on the status and carrier tokens of the model
toLowerCase(s) ==
    CASE s = "IN_TRANSIT" -> "in_transit"
      [] s = "PRE_TRANSIT" -> "pre_transit"
      [] s = "Delivered" -> "delivered"
      [] s = "EXCEPTION" -> "exception"
      [] s = "Unknown" -> "unknown"
      [] s = "RED" -> "red"
      [] s = "Yellow" -> "yellow"
      [] s = "USPS" -> "usps"
      [] s = "UPS" -> "ups"
      [] s \in {"FEDEX", "FedEx"} -> "fedex"
      [] s = "DHL" -> "dhl"
      [] OTHER -> s

\* values on which status.toLowerCase() raises a TypeError
NoToLowerCase == {NULL, UNDEFINED, NONSTRING}

-----------------------------------------------------------------------------
(* The closed sets of the normalized result.                               *)

Statuses == {"pre_transit", "in_transit", "out_for_delivery", "delivered",
             "exception", "delivery_failed", "lost", "unknown"}
RiskLevels == {"green", "yellow", "red"}

\* hours without an update after which an in_transit shipment is red
RedHours == 72
\* hours without an update after which a shipment is yellow
YellowHours == 48
\* calculateRisk: days after which any shipment is red
RedDays == 14
\* calculateRisk: days after which any shipment is yellow
YellowDays == 5

-----------------------------------------------------------------------------
(* The risk classifiers.  Date.now() is the variable now.  Each returns a  *)
(* risk level, or TYPE_ERROR when status.toLowerCase() raises.             *)

\* src/src/services/trackingService.js, first draft (the local mock)
calculateRiskLevel_mock(status, lastUpdateTime) ==
    IF status \in NoToLowerCase THEN TYPE_ERROR
    ELSE LET normalizedStatus == toLowerCase(status) IN
        IF normalizedStatus \in {"exception", "delivery_failed", "lost"} THEN "red"
        ELSE IF normalizedStatus \in {"delivered", "out_for_delivery"} THEN "green"
        ELSE IF /\ normalizedStatus = "in_transit" /\ Truthy(lastUpdateTime)
                /\ hoursSinceUpdateGT(now, lastUpdateTime, RedHours) THEN "red"
        ELSE IF /\ normalizedStatus = "in_transit" /\ Truthy(lastUpdateTime)
                /\ hoursSinceUpdateGT(now, lastUpdateTime, YellowHours) THEN "yellow"
        ELSE IF /\ normalizedStatus = "pre_transit" /\ Truthy(lastUpdateTime)
                /\ hoursSinceUpdateGT(now, lastUpdateTime, YellowHours) THEN "yellow"
        ELSE IF normalizedStatus = "unknown" THEN "yellow"
        ELSE "green"

\* a variant of the AfterShip v4 classifier whose thresholds are inclusive
calculateRiskLevel_v4_inclusive(status, lastUpdateTime) ==
    IF status \in NoToLowerCase THEN TYPE_ERROR
    ELSE LET normalizedStatus == toLowerCase(status) IN
        IF normalizedStatus \in {"exception", "delivery_failed", "lost"} THEN "red"
        ELSE IF normalizedStatus \in {"delivered", "out_for_delivery"} THEN "green"
        ELSE IF /\ normalizedStatus = "in_transit"
                /\ hoursSinceUpdateGT(now + 1, lastUpdateTime, RedHours) THEN "red"
        ELSE IF /\ normalizedStatus = "in_transit"
                /\ hoursSinceUpdateGT(now + 1, lastUpdateTime, YellowHours) THEN "yellow"
        ELSE IF /\ normalizedStatus = "pre_transit"
                /\ hoursSinceUpdateGT(now + 1, lastUpdateTime, YellowHours) THEN "yellow"
        ELSE IF normalizedStatus = "unknown" THEN "yellow"
        ELSE "green"

\* src/src/services/trackingService.js, second draft (AfterShip v4)
calculateRiskLevel_v4(status, lastUpdateTime) ==
    IF status \in NoToLowerCase THEN TYPE_ERROR
    ELSE LET normalizedStatus == toLowerCase(status) IN
        IF normalizedStatus \in {"exception", "delivery_failed", "lost"} THEN "red"
        ELSE IF normalizedStatus \in {"delivered", "out_for_delivery"} THEN "green"
        ELSE IF /\ normalizedStatus = "in_transit"
                /\ hoursSinceUpdateGT(now, lastUpdateTime, RedHours) THEN "red"
        ELSE IF /\ normalizedStatus = "in_transit"
                /\ hoursSinceUpdateGT(now, lastUpdateTime, YellowHours) THEN "yellow"
        ELSE IF /\ normalizedStatus = "pre_transit"
                /\ hoursSinceUpdateGT(now, lastUpdateTime, YellowHours) THEN "yellow"
        ELSE IF normalizedStatus = "unknown" THEN "yellow"
        ELSE "green"

\* a variant of the AfterShip 2024-07 classifier in which a delivered or
\* failed shipment is timed like one in transit
calculateRiskLevel_2024_allTimed(status, lastUpdateTime) ==
    IF status \in NoToLowerCase THEN TYPE_ERROR
    ELSE LET normalizedStatus == toLowerCase(status) IN
        IF hoursSinceUpdateGT(now, lastUpdateTime, RedHours) THEN "red"
        ELSE IF hoursSinceUpdateGT(now, lastUpdateTime, YellowHours) THEN "yellow"
        ELSE IF normalizedStatus \in {"exception", "delivery_failed", "lost"} THEN "red"
        ELSE IF normalizedStatus = "unknown" THEN "yellow"
        ELSE "green"

\* src/unnamed/part_012 (AfterShip 2024-07)
calculateRiskLevel_2024(status, lastUpdateTime) ==
    IF status \in NoToLowerCase THEN TYPE_ERROR
    ELSE LET normalizedStatus == toLowerCase(status) IN
        IF normalizedStatus \in {"exception", "delivery_failed", "lost"} THEN "red"
        ELSE IF normalizedStatus \in {"delivered", "out_for_delivery"} THEN "green"
        ELSE IF /\ normalizedStatus = "in_transit"
                /\ hoursSinceUpdateGT(now, lastUpdateTime, RedHours) THEN "red"
        ELSE IF /\ normalizedStatus = "in_transit"
                /\ hoursSinceUpdateGT(now, lastUpdateTime, YellowHours) THEN "yellow"
        ELSE IF /\ normalizedStatus = "pre_transit"
                /\ hoursSinceUpdateGT(now, lastUpdateTime, YellowHours) THEN "yellow"
        ELSE IF normalizedStatus = "unknown" THEN "yellow"
        ELSE "green"

\* a variant of the 17TRACK classifier that times pre_transit as the AfterShip
\* drafts do
calculateRiskLevel_17track_timed(status, lastUpdateTime) ==
    calculateRiskLevel_v4(status, lastUpdateTime)

\* src/unnamed/part_011 (17TRACK v2.2): pre_transit is decided before the clock is read
calculateRiskLevel_17track(status, lastUpdateTime) ==
    IF status \in NoToLowerCase THEN TYPE_ERROR
    ELSE LET normalizedStatus == toLowerCase(status) IN
        IF normalizedStatus \in {"exception", "delivery_failed", "lost"} THEN "red"
        ELSE IF normalizedStatus \in {"delivered", "out_for_delivery"} THEN "green"
        ELSE IF normalizedStatus = "pre_transit" THEN "green"
        ELSE IF /\ normalizedStatus = "in_transit"
                /\ hoursSinceUpdateGT(now, lastUpdateTime, RedHours) THEN "red"
        ELSE IF /\ normalizedStatus = "in_transit"
                /\ hoursSinceUpdateGT(now, lastUpdateTime, YellowHours) THEN "yellow"
        ELSE IF normalizedStatus = "unknown" THEN "yellow"
        ELSE "green"

\* src/unnamed/part_016: String(status).toLowerCase() never raises; includes()
\* is a substring test, decided here on the status tokens of the model.
calculateRisk(status, lastUpdateAt) ==
    LET d == newDate(lastUpdateAt)
        lastUpdate == IF Truthy(lastUpdateAt) /\ ~d.nan /\ d.ms # 0
                      THEN d.ms ELSE 0
        normalized == IF status = NONSTRING THEN "[object object]"
                      ELSE toLowerCase(status)
    IN  IF status \in {NULL, UNDEFINED, ""} THEN "yellow"
        ELSE IF normalized \in {"delivered"} THEN "green"
        ELSE IF normalized \in {"exception"} THEN "red"
        ELSE IF normalized \in {"delivery_failed"} THEN "red"
        ELSE IF lastUpdate # 0 /\ now - lastUpdate > RedDays * MsPerDay THEN "red"
        ELSE IF lastUpdate # 0 /\ now - lastUpdate > YellowDays * MsPerDay THEN "yellow"
        ELSE "green"

ProviderVariants == {"aftership_v4", "aftership_2024_07", "track17"}
Variants == {"mock"} \cup ProviderVariants
ClassifierVariants == Variants \cup {"calculateRisk"}

\* a variant of the classifier that remembers its previous answer and
\* escalates a shipment it has already called yellow
calculateRiskLevel_escalating(status, lastUpdateTime) ==
    IF rc.called /\ rc.status = status /\ rc.risk = "yellow" THEN "red"
    ELSE calculateRiskLevel_v4(status, lastUpdateTime)

\* the classifier of the deployed draft
calculateRiskLevel(status, lastUpdateTime) ==
    CASE variant = "mock" -> calculateRiskLevel_mock(status, lastUpdateTime)
      [] variant = "aftership_v4" -> calculateRiskLevel_v4(status, lastUpdateTime)
      [] variant = "aftership_2024_07" -> calculateRiskLevel_2024(status, lastUpdateTime)
      [] variant = "track17" -> calculateRiskLevel_17track(status, lastUpdateTime)
      [] OTHER -> calculateRisk(status, lastUpdateTime)

-----------------------------------------------------------------------------
(* Tracking numbers are sequences of one-character strings, so that the    *)
(* regular expressions of detectCarrier are decided character by character.*)

DigitChars == {"0", "1", "2", "3", "4", "5", "6", "7", "8", "9"}
UpperChars == {"A", "B", "C", "D", "E", "F", "G", "H", "I", "J", "K", "L", "M",
               "N", "O", "P", "Q", "R", "S", "T", "U", "V", "W", "X", "Y", "Z"}
LowerChars == {"a", "b", "c", "d", "e", "f", "g", "h", "i", "j", "k", "l", "m",
               "n", "o", "p", "q", "r", "s", "t", "u", "v", "w", "x", "y", "z"}

\* /^\d{lo,hi}$/
AllDigits(tn, lo, hi) ==
    /\ Len(tn) >= lo /\ Len(tn) <= hi
    /\ \A i \in 1..Len(tn) : tn[i] \in DigitChars

\* /^(p1|p2|...)\d{lo,hi}$/ for two-character prefixes
PrefixedDigits(tn, prefixes, lo, hi) ==
    /\ Len(tn) >= 2 + lo /\ Len(tn) <= 2 + hi
    /\ << tn[1], tn[2] >> \in prefixes
    /\ \A i \in 3..Len(tn) : tn[i] \in DigitChars

\* /^1Z[A-Z0-9]{16}$/, and with the i flag when ignoreCase
UpsShape(tn, ignoreCase) ==
    /\ Len(tn) = 18
    /\ tn[1] = "1"
    /\ tn[2] = "Z" \/ (ignoreCase /\ tn[2] = "z")
    /\ \A i \in 3..18 :
          \/ tn[i] \in DigitChars \cup UpperChars
          \/ ignoreCase /\ tn[i] \in LowerChars

\* no upper bound on a {n,} repetition within the tracking numbers tried
NoLimit == 64

\* 17TRACK carrier codes (CARRIER_CODES)
CODE_usps == 21051
CODE_ups == 100002
CODE_fedex == 100003
CODE_dhl == 100001

\* detectCarrier of the first draft: a case-sensitive UPS pattern, and null
\* when nothing matches
detectCarrier_mock(tn) ==
    IF AllDigits(tn, 20, 22) THEN "USPS"
    ELSE IF UpsShape(tn, FALSE) THEN "UPS"
    ELSE IF AllDigits(tn, 12, 14) THEN "FedEx"
    ELSE NULL

\* detectCarrier of the AfterShip v4 draft
detectCarrier_v4(tn) ==
    IF tn = << >> THEN NULL
    ELSE IF \/ AllDigits(tn, 20, 22)
            \/ PrefixedDigits(tn, {<<"9","4">>, <<"9","2">>, <<"9","3">>, <<"9","5">>}, 20, 20)
         THEN "usps"
    ELSE IF UpsShape(tn, TRUE) THEN "ups"
    ELSE IF AllDigits(tn, 12, 14) THEN "fedex"
    ELSE "usps"

\* detectCarrier of the original AfterShip v4 draft (src/unnamed/part_010): no
\* test for an empty number, a case-sensitive UPS pattern, and null when
\* nothing matches
detectCarrier_v4_original(tn) ==
    IF \/ AllDigits(tn, 20, 22)
       \/ PrefixedDigits(tn, {<<"9","4">>, <<"9","2">>, <<"9","3">>, <<"9","5">>}, 20, 20)
    THEN "usps"
    ELSE IF UpsShape(tn, FALSE) THEN "ups"
    ELSE IF AllDigits(tn, 12, 14) THEN "fedex"
    ELSE NULL

\* trackingNumber.replace(/\s+/g, "")
stripSpaces(tn) == SelectSeq(tn, LAMBDA ch : ch # " ")

\* detectCarrier of the stand-alone utility (src/unnamed/part_012, 304-324):
\* UPS is tried first, FedEx is 12 or 15 digits, DHL is 10 digits starting
\* with 3, and "unknown" when nothing matches
detectCarrier_util(tn) ==
    LET value == stripSpaces(tn) IN
    IF UpsShape(value, TRUE) THEN "ups"
    ELSE IF AllDigits(value, 20, 22) THEN "usps"
    ELSE IF AllDigits(value, 12, 12) \/ AllDigits(value, 15, 15) THEN "fedex"
    ELSE IF AllDigits(value, 10, 10) /\ value[1] = "3" THEN "dhl"
    ELSE "unknown"

\* a variant of the 2024-07 detector that tries the FedEx rule before the
\* USPS rule
detectCarrier_2024_fedexFirst(tn) ==
    IF tn = << >> THEN NULL
    ELSE IF AllDigits(tn, 12, 14) \/ AllDigits(tn, 22, 22) THEN "fedex"
    ELSE IF \/ AllDigits(tn, 20, 22)
            \/ PrefixedDigits(tn, {<<"9","4">>, <<"9","2">>, <<"9","3">>, <<"9","5">>,
                                   <<"4","2">>}, 18, NoLimit)
         THEN "usps"
    ELSE IF UpsShape(tn, TRUE) THEN "ups"
    ELSE "usps"

\* detectCarrier of the AfterShip 2024-07 draft
detectCarrier_2024(tn) ==
    IF tn = << >> THEN NULL
    ELSE IF \/ AllDigits(tn, 20, 22)
            \/ PrefixedDigits(tn, {<<"9","4">>, <<"9","2">>, <<"9","3">>, <<"9","5">>,
                                   <<"4","2">>}, 18, NoLimit)
         THEN "usps"
    ELSE IF UpsShape(tn, TRUE) THEN "ups"
    ELSE IF AllDigits(tn, 12, 14) \/ AllDigits(tn, 22, 22) THEN "fedex"
    ELSE "usps"

\* detectCarrierCode of the 17TRACK draft
detectCarrierCode(tn) ==
    IF tn = << >> THEN CODE_usps
    ELSE IF \/ AllDigits(tn, 20, 22)
            \/ PrefixedDigits(tn, {<<"9","4">>, <<"9","2">>, <<"9","3">>, <<"9","5">>,
                                   <<"4","2">>}, 18, NoLimit)
         THEN CODE_usps
    ELSE IF UpsShape(tn, TRUE) THEN CODE_ups
    ELSE IF AllDigits(tn, 12, 14) \/ AllDigits(tn, 22, 22) THEN CODE_fedex
    ELSE CODE_usps

\* getCarrierName of the 17TRACK draft
getCarrierName(carrierCode) ==
    CASE carrierCode = CODE_usps -> "usps"
      [] carrierCode = CODE_ups -> "ups"
      [] carrierCode = CODE_fedex -> "fedex"
      [] carrierCode = CODE_dhl -> "dhl"
      [] OTHER -> "unknown"

\* detectCarrier of the 17TRACK draft
detectCarrier_17track(tn) == getCarrierName(detectCarrierCode(tn))

\* detectCarrier of the deployed draft
detectCarrier(tn) ==
    CASE variant = "mock" -> detectCarrier_mock(tn)
      [] variant = "aftership_v4" -> detectCarrier_v4(tn)
      [] variant = "aftership_2024_07" -> detectCarrier_2024(tn)
      [] OTHER -> detectCarrier_17track(tn)

\* a || b on strings: null, undefined, a missing key and "" are falsy
Or(a, b) == IF a \in {NULL, UNDEFINED, ABSENT, ""} THEN b ELSE a

\* normalizeCarrierSlug of the AfterShip v4 draft
normalizeCarrierSlug_v4(c) ==
    IF c \in {NULL, UNDEFINED, ""} THEN NULL
    ELSE CASE c = "USPS" -> "usps"
           [] c = "UPS" -> "ups"
           [] c \in {"FEDEX", "FedEx"} -> "fedex"
           [] c \in {"DHL", "DHL Express"} -> "dhl-express"
           [] c = "Amazon" -> "amazon"
           [] OTHER -> toLowerCase(c)

\* normalizeCarrierSlug of the AfterShip 2024-07 draft
normalizeCarrierSlug_2024(c) ==
    IF c \in {NULL, UNDEFINED, ""} THEN NULL
    ELSE CASE c \in {"USPS", "usps"} -> "usps"
           [] c \in {"UPS", "ups"} -> "ups"
           [] c \in {"FEDEX", "FedEx", "fedex"} -> "fedex"
           [] c \in {"DHL", "dhl"} -> "dhl"
           [] OTHER -> toLowerCase(c)

\* getCarrierCode of the 17TRACK draft
getCarrierCode(c) ==
    IF c \in {NULL, UNDEFINED, ""} THEN CODE_usps
    ELSE LET normalized == toLowerCase(c) IN
         CASE normalized = "usps" -> CODE_usps
           [] normalized = "ups" -> CODE_ups
           [] normalized = "fedex" -> CODE_fedex
           [] normalized = "dhl" -> CODE_dhl
           [] OTHER -> CODE_usps

\* the tracking numbers tried
TN_ups == << "1", "Z", "9", "9", "9", "A", "A", "1", "0", "1", "2", "3", "4", "5", "6", "7", "8", "4" >>
TN_usps22 == << "9", "4", "0", "0", "1", "0", "0", "0", "0", "0", "0", "0", "0", "0", "0", "0", "0", "0", "0", "0", "0", "0" >>
TN_fedex12 == << "1", "2", "3", "4", "5", "6", "7", "8", "9", "0", "1", "2" >>
TN_garbage == << "g", "a", "r", "b", "a", "g", "e" >>
TrackingNumbers == {TN_ups, TN_usps22, TN_garbage}

\* the carrier hints tried
CarrierHints == {NULL, "UPS", "DHL"}

-----------------------------------------------------------------------------
(* Normalized results, and what a function call can do: return or throw.   *)

Res(status, riskLevel, carrierSlug, lastUpdate, location, message, deliveryDate, error) ==
    [returned |-> TRUE, status |-> status, riskLevel |-> riskLevel,
     carrier |-> carrierSlug, lastUpdate |-> lastUpdate, location |-> location,
     message |-> message, deliveryDate |-> deliveryDate, error |-> error]

NoResult ==
    [returned |-> FALSE, status |-> "", riskLevel |-> "", carrier |-> "",
     lastUpdate |-> NullTime, location |-> "", message |-> "",
     deliveryDate |-> NullTime, error |-> ""]

\* a call that returned v, and a call that threw an Error with this message;
\* value is read only of a call that returned
Return(v) == [threw |-> FALSE, error |-> "", value |-> v]
Throw(msg) == [threw |-> TRUE, error |-> msg]

\* new Date(x) as a Date object: a valid date or an Invalid Date
asDate(x) == IF newDate(x).nan THEN InvalidDate ELSE DateAt(newDate(x).ms)

\* parts.join(', ')
RECURSIVE join(_)
join(parts) ==
    IF parts = << >> THEN ""
    ELSE IF Len(parts) = 1 THEN parts[1]
    ELSE parts[1] \o ", " \o join(Tail(parts))

\* if (x) parts.push(x)
push(parts, x) == IF x \in {NULL, UNDEFINED, ABSENT, ""} THEN parts ELSE Append(parts, x)

\* property names every object literal inherits from Object.prototype: looking
\* one up in a statusMap yields a function or object, not undefined
ObjectPrototypeKeys == {"constructor", "toString", "valueOf", "hasOwnProperty"}

TypeErrorMessage == "status.toLowerCase is not a function"

-----------------------------------------------------------------------------
(* The first draft: no provider, fetchTrackingData returns fixed data.     *)

fetchTrackingData(c) ==
    [status |-> "in_transit",
     carrier |-> Or(c, "USPS"),
     tracking_details |->
        << [datetime |-> DateAt(now), message |-> "Package is in transit",
            tracking_location |->
                [defined |-> TRUE, city |-> "Los Angeles", state |-> "CA"]] >>]

\* normalizeTrackingData: the status is the provider's own token, lower-cased
normalizeTrackingData(carrierResponse) ==
    LET status == Or(carrierResponse.status, "unknown")
        carrierName == Or(carrierResponse.carrier, "unknown")
        hasEvent == carrierResponse.tracking_details # << >>
        latestEvent == carrierResponse.tracking_details[1]
        datetime == IF hasEvent THEN latestEvent.datetime ELSE UndefinedTime
        riskLevel == calculateRiskLevel_mock(status, datetime)
    IN  IF riskLevel = TYPE_ERROR THEN Throw(TypeErrorMessage)
        ELSE Return(Res(toLowerCase(status), riskLevel, carrierName,
                        IF Truthy(datetime) THEN asDate(datetime) ELSE DateAt(now),
                        IF hasEvent /\ latestEvent.tracking_location.defined
                        THEN latestEvent.tracking_location.city \o ", "
                               \o latestEvent.tracking_location.state
                        ELSE NULL,
                        IF hasEvent THEN Or(latestEvent.message, NULL) ELSE NULL,
                        AbsentTime, ABSENT))

-----------------------------------------------------------------------------
(* AfterShip tracking objects and their normalization.                     *)

\* a variant of the map that lets two provider tags through in the provider's
\* own vocabulary
statusMap_aftership_native(tag) ==
    CASE tag \in {"Pending", "InfoReceived"} -> "pre_transit"
      [] tag = "InTransit" -> "in_transit"
      [] tag = "OutForDelivery" -> "out_for_delivery"
      [] tag = "AvailableForPickup" -> "available_for_pickup"
      [] tag = "AttemptFail" -> "attempt_fail"
      [] tag = "Delivered" -> "delivered"
      [] tag = "Exception" -> "exception"
      [] tag = "Expired" -> "lost"
      [] tag \in ObjectPrototypeKeys -> NONSTRING
      [] OTHER -> UNDEFINED

\* statusMap[tag] of both AfterShip drafts
statusMap_aftership(tag) ==
    CASE tag \in {"Pending", "InfoReceived"} -> "pre_transit"
      [] tag = "InTransit" -> "in_transit"
      [] tag \in {"OutForDelivery", "AvailableForPickup"} -> "out_for_delivery"
      [] tag = "AttemptFail" -> "delivery_failed"
      [] tag = "Delivered" -> "delivered"
      [] tag = "Exception" -> "exception"
      [] tag = "Expired" -> "lost"
      [] tag \in ObjectPrototypeKeys -> NONSTRING
      [] OTHER -> UNDEFINED

\* the fixed record both normalizers return for a missing tracking object
NoTrackingResult ==
    Res("unknown", "yellow", "unknown", DateAt(now), NULL, NULL, AbsentTime, ABSENT)

\* normalizeAfterShipData of the AfterShip v4 draft
normalizeAfterShipData_v4(tracking) ==
    IF ~tracking.defined THEN Return(NoTrackingResult)
    ELSE
    LET aftershipTag == Or(tracking.tag, "Pending")
        status == Or(statusMap_aftership(aftershipTag), "unknown")
        checkpoints == tracking.checkpoints
        hasCheckpoint == Len(checkpoints) > 0
        latestCheckpoint == checkpoints[Len(checkpoints)]
        lastUpdate ==
            IF hasCheckpoint /\ Truthy(latestCheckpoint.checkpoint_time)
            THEN asDate(latestCheckpoint.checkpoint_time)
            ELSE IF Truthy(tracking.created_at) THEN asDate(tracking.created_at)
            ELSE DateAt(now)
        riskLevel == calculateRiskLevel_v4(status, lastUpdate)
        parts == push(push(push(<< >>, latestCheckpoint.city),
                           latestCheckpoint.state), latestCheckpoint.country_iso3)
        location == IF hasCheckpoint THEN Or(join(parts), NULL) ELSE NULL
        message == IF hasCheckpoint
                   THEN Or(latestCheckpoint.message,
                           Or(latestCheckpoint.subtag_message, NULL))
                   ELSE NULL
    IN  IF riskLevel = TYPE_ERROR THEN Throw(TypeErrorMessage)
        ELSE Return(Res(status, riskLevel, Or(tracking.slug, "unknown"),
                        lastUpdate, location, message,
                        IF Truthy(tracking.expected_delivery)
                        THEN asDate(tracking.expected_delivery) ELSE NullTime,
                        ABSENT))

\* a variant of the 2024-07 normalizer that classifies by the creation time of
\* the tracking instead of its latest checkpoint
normalizeAfterShipData_2024_byCreation(tracking) ==
    IF ~tracking.defined THEN Return(NoTrackingResult)
    ELSE
    LET aftershipTag == Or(tracking.tag, "Pending")
        status == Or(statusMap_aftership(aftershipTag), "unknown")
        checkpoints == tracking.checkpoints
        hasCheckpoint == Len(checkpoints) > 0
        latestCheckpoint == checkpoints[Len(checkpoints)]
        lastUpdate ==
            IF hasCheckpoint /\ Truthy(latestCheckpoint.checkpoint_time)
            THEN asDate(latestCheckpoint.checkpoint_time)
            ELSE IF Truthy(tracking.created_at) THEN asDate(tracking.created_at)
            ELSE DateAt(now)
        riskLevel == calculateRiskLevel_2024(status,
                        IF Truthy(tracking.created_at) THEN asDate(tracking.created_at)
                        ELSE DateAt(now))
        parts == push(push(<< >>, latestCheckpoint.city), latestCheckpoint.state)
        location == IF hasCheckpoint THEN Or(join(parts), NULL) ELSE NULL
        message == IF hasCheckpoint THEN Or(latestCheckpoint.message, NULL) ELSE NULL
    IN  IF riskLevel = TYPE_ERROR THEN Throw(TypeErrorMessage)
        ELSE Return(Res(status, riskLevel, Or(tracking.slug, "unknown"),
                        lastUpdate, location, message,
                        IF Truthy(tracking.expected_delivery)
                        THEN asDate(tracking.expected_delivery) ELSE NullTime,
                        ABSENT))

\* normalizeAfterShipData of the AfterShip 2024-07 draft: no country in the
\* location, no subtag_message
normalizeAfterShipData_2024(tracking) ==
    IF ~tracking.defined THEN Return(NoTrackingResult)
    ELSE
    LET aftershipTag == Or(tracking.tag, "Pending")
        status == Or(statusMap_aftership(aftershipTag), "unknown")
        checkpoints == tracking.checkpoints
        hasCheckpoint == Len(checkpoints) > 0
        latestCheckpoint == checkpoints[Len(checkpoints)]
        lastUpdate ==
            IF hasCheckpoint /\ Truthy(latestCheckpoint.checkpoint_time)
            THEN asDate(latestCheckpoint.checkpoint_time)
            ELSE IF Truthy(tracking.created_at) THEN asDate(tracking.created_at)
            ELSE DateAt(now)
        riskLevel == calculateRiskLevel_2024(status, lastUpdate)
        parts == push(push(<< >>, latestCheckpoint.city), latestCheckpoint.state)
        location == IF hasCheckpoint THEN Or(join(parts), NULL) ELSE NULL
        message == IF hasCheckpoint THEN Or(latestCheckpoint.message, NULL) ELSE NULL
    IN  IF riskLevel = TYPE_ERROR THEN Throw(TypeErrorMessage)
        ELSE Return(Res(status, riskLevel, Or(tracking.slug, "unknown"),
                        lastUpdate, location, message,
                        IF Truthy(tracking.expected_delivery)
                        THEN asDate(tracking.expected_delivery) ELSE NullTime,
                        ABSENT))

-----------------------------------------------------------------------------
(* 17TRACK responses and their normalization.                              *)

\* statusMap[latestStatus] of the 17TRACK draft
statusMap_17track(latestStatus) ==
    CASE latestStatus = "NotFound" -> "unknown"
      [] latestStatus = "InfoReceived" -> "pre_transit"
      [] latestStatus = "InTransit" -> "in_transit"
      [] latestStatus \in {"OutForDelivery", "AvailableForPickup"} -> "out_for_delivery"
      [] latestStatus = "Delivered" -> "delivered"
      [] latestStatus = "Exception" -> "exception"
      [] latestStatus = "Expired" -> "lost"
      [] latestStatus \in ObjectPrototypeKeys -> NONSTRING
      [] OTHER -> UNDEFINED

UndefinedAddress == [defined |-> FALSE, city |-> ABSENT, state |-> ABSENT,
                     country |-> ABSENT]
UndefinedEvent ==
    [defined |-> FALSE, time_utc |-> UndefinedTime, time_iso |-> UndefinedTime,
     location |-> ABSENT, address |-> UndefinedAddress, description |-> ABSENT]
UndefinedTrackInfo ==
    [defined |-> FALSE, latest_status |-> ABSENT, latest_event |-> UndefinedEvent]
UndefinedEntry ==
    [defined |-> FALSE, number |-> << >>, carrier |-> 0,
     track_info |-> UndefinedTrackInfo]

\* accepted.find(t => t.number === trackingNumber)
find(accepted, tn) ==
    IF \E i \in 1..Len(accepted) : accepted[i].number = tn
    THEN accepted[CHOOSE i \in 1..Len(accepted) :
                     /\ accepted[i].number = tn
                     /\ \A j \in 1..(i - 1) : accepted[j].number # tn]
    ELSE UndefinedEntry

\* normalize17TrackData
normalize17TrackData(accepted, tn) ==
    LET tracking == find(accepted, tn) IN
    IF ~tracking.defined
    THEN Return(Res("unknown", "yellow", "unknown", DateAt(now), NULL,
                    "No tracking data available", AbsentTime, ABSENT))
    ELSE IF ~tracking.track_info.defined
    THEN Return(Res("unknown", "yellow", Or(getCarrierName(tracking.carrier), "unknown"),
                    DateAt(now), NULL, "No tracking info available", AbsentTime, ABSENT))
    ELSE
    LET trackInfo == tracking.track_info
        latestStatus == Or(trackInfo.latest_status, "NotFound")
        status == Or(statusMap_17track(latestStatus), "unknown")
        hasEvent == trackInfo.latest_event.defined
        latestEvent == trackInfo.latest_event
        lastUpdate ==
            IF hasEvent /\ Truthy(latestEvent.time_utc) THEN asDate(latestEvent.time_utc)
            ELSE IF hasEvent /\ Truthy(latestEvent.time_iso) THEN asDate(latestEvent.time_iso)
            ELSE DateAt(now)
        addr == latestEvent.address
        parts == push(push(push(<< >>, addr.city), addr.state), addr.country)
        location ==
            IF hasEvent /\ Or(latestEvent.location, NULL) # NULL THEN latestEvent.location
            ELSE IF hasEvent /\ addr.defined THEN Or(join(parts), NULL)
            ELSE NULL
        message == IF hasEvent THEN Or(latestEvent.description, NULL) ELSE NULL
        riskLevel == calculateRiskLevel_17track(status, lastUpdate)
    IN  IF riskLevel = TYPE_ERROR THEN Throw(TypeErrorMessage)
        ELSE Return(Res(status, riskLevel, Or(getCarrierName(tracking.carrier), "unknown"),
                        lastUpdate, location, message, NullTime, ABSENT))

-----------------------------------------------------------------------------
(* Direct calls of the classifier (it is exported by every draft).         *)

NoCall == [called |-> FALSE, status |-> "", time |-> NullTime,
           at |-> 0, risk |-> ""]

\* status arguments tried: the closed set, an upper-case spelling, a token
\* outside the set, a missing status and a status that is not a string
ClassifierStatuses ==
    Statuses \cup {"IN_TRANSIT", "returned", UNDEFINED, NONSTRING}

\* lastUpdateTime arguments tried; with the clock ticks the two boundary
\* timestamps are one millisecond under, exactly at and one over 48h and 72h
ClassifierTimes ==
    {NullTime, UndefinedTime, InvalidDate,
     DateAt(T0 + MsPerHour), DateAt(T0),
     DateAt(T0 - YellowHours * MsPerHour + 1),
     DateAt(T0 - 50 * MsPerHour),
     DateAt(T0 - RedHours * MsPerHour + 1),
     DateAt(T0 - MaxAgeHours * MsPerHour)}

Idle ==
    /\ pc = "idle" /\ trackingNumber = << >> /\ carrier = NULL
    /\ log = << >> /\ held = "" /\ result = NoResult

\* no detectCarrier call made yet
NoDetect == [called |-> FALSE, impl |-> "", tn |-> << >>, value |-> ""]

\* no getMessageTemplate call made yet
NoTemplate == [called |-> FALSE, status |-> "", riskLevel |-> "", orderId |-> "",
               out |-> [subject |-> << >>, rule |-> "", tone |-> "",
                        copyable |-> FALSE]]

\* no sweep, no bulk check and no check request in flight
NoCron == [phase |-> "idle"]
NoBulk == [phase |-> "idle"]
NoRequest == [phase |-> "idle"]

\* an empty database, and nothing running against it
NoStore ==
    /\ orders = << >> /\ orderEvent = << >>
    /\ cron = NoCron /\ bulk = NoBulk /\ request = NoRequest

\* no normalizer called, no user, no order being created, no shop, no stores
NoNormalizerCall == [called |-> FALSE]
NoAccount == [exists |-> FALSE]
NoPost == << >>
NoEtsy == [phase |-> "idle"]
NoAccess == [phase |-> "idle"]
NoLater ==
    /\ normalizerCall = NoNormalizerCall /\ account = NoAccount /\ post = NoPost
    /\ etsy = NoEtsy /\ storeId = << >> /\ access = NoAccess

\* nothing has happened beside the tracking service
NoOtherCalls == detected = NoDetect /\ template = NoTemplate /\ NoStore /\ NoLater

InitRisk ==
    /\ variant \in ClassifierVariants
    /\ apiKey = FALSE
    /\ now = T0
    /\ rc = NoCall /\ memo = NoCall
    /\ Idle /\ NoOtherCalls

Classify(status, lastUpdateTime) ==
    /\ rc' = [called |-> TRUE, status |-> status, time |-> lastUpdateTime,
              at |-> now, risk |-> calculateRiskLevel(status, lastUpdateTime)]
    /\ memo' = NoCall
    /\ UNCHANGED << otherVars, variant, apiKey, now, pc, trackingNumber, carrier,
                    log, held, result >>

\* the same call once more, with the identical arguments
Repeat ==
    /\ rc.called
    /\ memo' = rc
    /\ rc' = [rc EXCEPT !.at = now,
                        !.risk = calculateRiskLevel(rc.status, rc.time)]
    /\ UNCHANGED << otherVars, variant, apiKey, now, pc, trackingNumber, carrier,
                    log, held, result >>

\* time passes
Tick ==
    /\ now < T0 + MaxTicks
    /\ now' = now + 1
    /\ UNCHANGED << otherVars, variant, apiKey, rc, memo, pc, trackingNumber, carrier,
                    log, held, result >>

NextRisk ==
    \/ \E s \in ClassifierStatuses, t \in ClassifierTimes : Classify(s, t)
    \/ Repeat
    \/ Tick

SpecRisk == InitRisk /\ [][NextRisk]_vars

-----------------------------------------------------------------------------
(* Direct calls of the detectCarrier implementations (each is exported).   *)

\* the longest all-digit tracking number tried
MaxDigits == 24

DetectImplementations ==
    {"mock", "aftership_v4", "aftership_v4_original", "aftership_2024_07",
     "track17", "util"}

detectCarrierOf(impl, tn) ==
    CASE impl = "mock" -> detectCarrier_mock(tn)
      [] impl = "aftership_v4" -> detectCarrier_v4(tn)
      [] impl = "aftership_v4_original" -> detectCarrier_v4_original(tn)
      [] impl = "aftership_2024_07" -> detectCarrier_2024(tn)
      [] impl = "track17" -> detectCarrier_17track(tn)
      [] OTHER -> detectCarrier_util(tn)

\* n digits, none of them the start of a USPS prefix or of a DHL number
Digits(n) == [i \in 1..n |-> "7"]
Prefixed(a, b, n) == << a, b >> \o Digits(n)

TN_ups_lower == << "1", "z", "9", "9", "9", "a", "a", "1", "0", "1", "2", "3", "4", "5", "6", "7", "8", "4" >>
TN_ups_mixed == << "1", "Z", "9", "9", "9", "a", "A", "1", "0", "1", "2", "3", "4", "5", "6", "7", "8", "4" >>
TN_ups_short == << "1", "Z", "9", "9", "9", "A", "A", "1", "0", "1", "2", "3", "4", "5", "6", "7", "8" >>
TN_spaced == << "7", "7", "7", "7", " ", "7", "7", "7", "7", " ", "7", "7", "7", "7" >>
TN_dhl == << "3" >> \o Digits(9)

\* tracking numbers tried: the empty string, every all-digit length up to
\* MaxDigits, USPS-prefixed numbers around the lengths the patterns name, UPS
\* numbers in upper, lower and mixed case and one character short, a number
\* with blanks, a DHL number and a string no pattern matches
DetectInputs ==
    {Digits(n) : n \in 0..MaxDigits}
    \cup {Prefixed("9", "4", n) : n \in {17, 18, 20, 23}}
    \cup {Prefixed("4", "2", n) : n \in {18, 20, 23}}
    \cup {TN_ups, TN_ups_lower, TN_ups_mixed, TN_ups_short, TN_spaced, TN_dhl,
          TN_garbage}

Detect(impl, tn) ==
    /\ detected' = [called |-> TRUE, impl |-> impl, tn |-> tn,
                    value |-> detectCarrierOf(impl, tn)]
    /\ UNCHANGED << serviceVars, template, storeVars, laterVars >>

\* src/backend/src/utils/messageTemplates.js.  A subject is the sequence of
\* the words of its template literal, with the order id in its place; the
\* message body, which is fixed by the same return statement as the subject,
\* is represented by the name of that statement (rule).
Message(subject, rule, tone) ==
    [subject |-> subject, rule |-> rule, tone |-> tone, copyable |-> TRUE]

\* a variant of getMessageTemplate that looks at the status before it looks
\* at the risk level
getMessageTemplate_statusFirst(status, riskLevel, orderId) ==
    LET normalizedStatus == toLowerCase(Or(status, "unknown"))
        normalizedRisk == toLowerCase(Or(riskLevel, "green"))
    IN  IF normalizedStatus = "delivered"
        THEN Message(<< "Your", "order", orderId, "has", "been", "delivered", "!" >>,
                     "delivered", "positive")
        ELSE IF normalizedStatus = "out_for_delivery"
        THEN Message(<< "Your", "order", orderId, "is", "out", "for", "delivery",
                        "today", "!" >>, "out_for_delivery", "positive")
        ELSE IF normalizedStatus = "in_transit"
        THEN Message(<< "Your", "order", orderId, "is", "on", "the", "way", "!" >>,
                     "in_transit", "neutral")
        ELSE IF normalizedRisk = "red"
                /\ normalizedStatus \in {"exception", "delivery_failed"}
        THEN Message(<< "Important", "update", "about", "your", "order", orderId >>,
                     "delivery_issue", "urgent")
        ELSE IF normalizedRisk = "red" /\ normalizedStatus \in {"lost", "unknown"}
        THEN Message(<< "Quick", "check-in", "about", "your", "order", orderId >>,
                     "stalled", "urgent")
        ELSE IF normalizedRisk = "yellow" /\ normalizedStatus = "pre_transit"
        THEN Message(<< "Your", "order", orderId, "is", "on", "its", "way", "!" >>,
                     "delayed", "reassuring")
        ELSE Message(<< "Update", "on", "your", "order", orderId >>,
                     "default", "neutral")

getMessageTemplate(status, riskLevel, orderId) ==
    LET normalizedStatus == toLowerCase(Or(status, "unknown"))
        normalizedRisk == toLowerCase(Or(riskLevel, "green"))
    IN  IF normalizedRisk = "red"
           /\ normalizedStatus \in {"exception", "delivery_failed"}
        THEN Message(<< "Important", "update", "about", "your", "order", orderId >>,
                     "delivery_issue", "urgent")
        ELSE IF normalizedRisk = "red" /\ normalizedStatus \in {"lost", "unknown"}
        THEN Message(<< "Quick", "check-in", "about", "your", "order", orderId >>,
                     "stalled", "urgent")
        ELSE IF normalizedRisk = "yellow"
                /\ normalizedStatus \in {"in_transit", "pre_transit"}
        THEN Message(<< "Your", "order", orderId, "is", "on", "its", "way", "!" >>,
                     "delayed", "reassuring")
        ELSE IF normalizedStatus = "delivered"
        THEN Message(<< "Your", "order", orderId, "has", "been", "delivered", "!" >>,
                     "delivered", "positive")
        ELSE IF normalizedStatus = "out_for_delivery"
        THEN Message(<< "Your", "order", orderId, "is", "out", "for", "delivery",
                        "today", "!" >>, "out_for_delivery", "positive")
        ELSE IF normalizedStatus = "in_transit"
        THEN Message(<< "Your", "order", orderId, "is", "on", "the", "way", "!" >>,
                     "in_transit", "neutral")
        ELSE Message(<< "Update", "on", "your", "order", orderId >>,
                     "default", "neutral")

\* status and riskLevel arguments tried: the closed sets, other spellings,
\* a token outside the set, and null, undefined and the empty string
TemplateStatuses == Statuses \cup {"Delivered", "IN_TRANSIT", "returned", NULL, UNDEFINED, ""}
TemplateRisks == RiskLevels \cup {"RED", "Yellow", "purple", NULL, UNDEFINED}
OrderIds == {"X", "1001"}

Template(status, riskLevel, orderId) ==
    /\ template' = [called |-> TRUE, status |-> status, riskLevel |-> riskLevel,
                    orderId |-> orderId,
                    out |-> getMessageTemplate(status, riskLevel, orderId)]
    /\ UNCHANGED << serviceVars, detected, storeVars, laterVars >>

InitCalls ==
    /\ variant = "aftership_v4" /\ apiKey = FALSE /\ now = T0
    /\ rc = NoCall /\ memo = NoCall
    /\ Idle /\ NoOtherCalls

NextDetect ==
    \E impl \in DetectImplementations, tn \in DetectInputs : Detect(impl, tn)

SpecDetect == InitCalls /\ [][NextDetect]_vars

NextTemplate ==
    \E s \in TemplateStatuses, r \in TemplateRisks, o \in OrderIds :
        Template(s, r, o)

SpecTemplate == InitCalls /\ [][NextTemplate]_vars

-----------------------------------------------------------------------------
(* What the provider can answer.  A response is a record: net says whether *)
(* fetch resolved or rejected, json whether response.json() parsed the     *)
(* body to an object, httpOk is response.ok, code is meta.code (AfterShip) *)
(* or the body's code (17TRACK), msg the provider's error message,         *)
(* hasData whether the body has a data member, and body the payload.       *)

\* tag of an AfterShip tracking / latest_status of a 17TRACK one: both
\* vocabularies, a name inherited from Object.prototype, and no tag at all
Tags == {"Pending", "InfoReceived", "InTransit", "OutForDelivery", "AttemptFail",
         "Delivered", "Exception", "Expired", "AvailableForPickup", "NotFound",
         "constructor", ABSENT}

\* event timestamps tried: fresh, 50 and 73 hours old, and none
EventTimes == {DateAt(T0 - MsPerHour), DateAt(T0 - 50 * MsPerHour),
               DateAt(T0 - 73 * MsPerHour), UndefinedTime}

OldestTime == DateAt(T0 - MaxAgeHours * MsPerHour)

Checkpoint(time, city, state, country, message) ==
    [checkpoint_time |-> time, city |-> city, state |-> state,
     country_iso3 |-> country, message |-> message, subtag_message |-> ABSENT]

FirstCheckpoint == Checkpoint(OldestTime, "Shenzhen", ABSENT, "CHN", "Picked up")

\* checkpoint lists tried with every tag: none, one bare checkpoint of each
\* age, and an older checkpoint followed by a located one of each age
CheckpointLists ==
    {<< >>}
    \cup {<< Checkpoint(t, ABSENT, ABSENT, ABSENT, ABSENT) >> : t \in EventTimes}
    \cup {<< FirstCheckpoint,
             Checkpoint(t, "Los Angeles", "CA", "USA", "Departed facility") >> :
             t \in EventTimes}

UndefinedTracking ==
    [defined |-> FALSE, tag |-> ABSENT, slug |-> ABSENT, checkpoints |-> << >>,
     created_at |-> UndefinedTime, expected_delivery |-> UndefinedTime]

\* trackings tried: every tag with every checkpoint list, with and without a
\* creation time; and for one tag, without a slug
AfterShipTrackings ==
    {UndefinedTracking}
    \cup [defined : {TRUE}, tag : Tags, slug : {"ups"},
          checkpoints : CheckpointLists, created_at : {UndefinedTime, OldestTime},
          expected_delivery : {UndefinedTime}]
    \cup [defined : {TRUE}, tag : {"InTransit"}, slug : {ABSENT},
          checkpoints : {<< >>}, created_at : {UndefinedTime},
          expected_delivery : {UndefinedTime, DateAt(T0 + MsPerDay)}]

Address(city, state, country) ==
    [defined |-> TRUE, city |-> city, state |-> state, country |-> country]

\* latest events tried: none, a located one of each age, and one that has
\* only time_iso and an address
Events17Track ==
    {UndefinedEvent}
    \cup [defined : {TRUE}, time_utc : EventTimes, time_iso : {UndefinedTime},
          location : {"Los Angeles, CA"}, address : {UndefinedAddress},
          description : {"Departed facility"}]
    \cup [defined : {TRUE}, time_utc : {UndefinedTime},
          time_iso : {DateAt(T0 - 50 * MsPerHour)},
          location : {ABSENT}, address : {Address("Memphis", "TN", ABSENT)},
          description : {ABSENT}]

\* accepted entries tried: for the number asked about, every status with every
\* latest event; and an entry without track_info, one of an unknown carrier
\* and one for another number
Entries17Track(tn) ==
    [defined : {TRUE}, number : {tn}, carrier : {CODE_ups},
     track_info : [defined : {TRUE}, latest_status : Tags,
                   latest_event : Events17Track]]
    \cup [defined : {TRUE}, number : {tn, << "X" >>}, carrier : {CODE_ups, 0},
          track_info : {UndefinedTrackInfo}]

\* meta.code 4003 is AfterShip's "tracking already exists"
AlreadyExistsCode == 4003

\* meta.code values tried in non-2xx AfterShip answers: 4004 is "not found"
AfterShipErrorCodes == {AlreadyExistsCode, 4004}

ProviderMessages == {ABSENT, "Bad request", "Tracking already exists."}

\* whether a message contains '4003' or 'already exists'
SaysAlreadyExists(msg) ==
    msg \in {"4003: Tracking already exists", "Tracking already exists."}

Response(net, json, httpOk, code, msg, hasData, body) ==
    [net |-> net, json |-> json, httpOk |-> httpOk, code |-> code, msg |-> msg,
     hasData |-> hasData, body |-> body]

\* responses that carry no usable body: fetch rejects, or the body does not parse
BrokenResponses(noBody) ==
    {Response("reject", FALSE, FALSE, 0, ABSENT, FALSE, noBody)}
    \cup {Response("ok", FALSE, ok, 0, ABSENT, FALSE, noBody) : ok \in BOOLEAN}

\* AfterShip answers to POST /trackings and GET /trackings/:slug/:number
AfterShipResponses ==
    BrokenResponses(UndefinedTracking)
    \cup {Response("ok", TRUE, FALSE, code, msg, FALSE, UndefinedTracking) :
            code \in AfterShipErrorCodes, msg \in ProviderMessages}
    \cup {Response("ok", TRUE, TRUE, 0, ABSENT, FALSE, UndefinedTracking)}
    \cup {Response("ok", TRUE, TRUE, 0, ABSENT, TRUE, t) : t \in AfterShipTrackings}

\* AfterShip answers to GET /trackings?tracking_numbers=: a list of trackings
AfterShipListResponses ==
    BrokenResponses(<< >>)
    \cup {Response("ok", TRUE, FALSE, code, msg, FALSE, << >>) :
            code \in AfterShipErrorCodes \ {AlreadyExistsCode},
            msg \in ProviderMessages}
    \cup {Response("ok", TRUE, TRUE, 0, ABSENT, FALSE, << >>),
          Response("ok", TRUE, TRUE, 0, ABSENT, TRUE, << >>)}
    \cup {Response("ok", TRUE, TRUE, 0, ABSENT, TRUE, << t >>) :
            t \in AfterShipTrackings}

\* 17TRACK body codes tried: 0 is success, any other an error
Track17Codes == {0, -18019901}
RejectedCodes == Track17Codes \ {0}

\* 17TRACK answers to /register and /gettrackinfo: a list of accepted entries
Track17Responses(tn) ==
    BrokenResponses(<< >>)
    \cup {Response("ok", TRUE, ok, code, msg, TRUE, << >>) :
            ok \in BOOLEAN, code \in RejectedCodes, msg \in {ABSENT, "Bad request"}}
    \cup {Response("ok", TRUE, ok, 0, ABSENT, hasData, << >>) :
            ok \in BOOLEAN, hasData \in BOOLEAN}
    \cup {Response("ok", TRUE, ok, 0, ABSENT, TRUE, << e >>) :
            ok \in BOOLEAN, e \in Entries17Track(tn)}

\* 17TRACK answers to /register tried: its payload is never read
Track17RegisterResponses ==
    BrokenResponses(<< >>)
    \cup {Response("ok", TRUE, ok, code, ABSENT, TRUE, << >>) :
            ok \in BOOLEAN, code \in Track17Codes}

-----------------------------------------------------------------------------
(* The request functions: what each does with the provider's answer.       *)

FetchFailed == "fetch failed"
JsonFailed == "Unexpected token < in JSON at position 0"
NoDataFailed == "Cannot read properties of undefined (reading 'tracking')"

\* await fetch(...) and await response.json() of every request function
Received(r) ==
    IF r.net = "reject" THEN Throw(FetchFailed)
    ELSE IF ~r.json THEN Throw(JsonFailed)
    ELSE Return(TRUE)

\* createTracking of the AfterShip v4 draft, apart from its 4003 branch, which
\* returns getTracking(...): the payload data.data.tracking, or an Error
createTracking_v4(r) ==
    IF Received(r).threw THEN Received(r)
    ELSE IF ~r.httpOk
         THEN Throw(Or(r.msg, "Failed to create tracking"))
    ELSE IF ~r.hasData THEN Throw(NoDataFailed)
    ELSE Return(r.body)

\* whether createTracking of the AfterShip v4 draft takes its 4003 branch
createTracking_v4_exists(r) ==
    /\ ~Received(r).threw /\ ~r.httpOk /\ r.code = AlreadyExistsCode

\* getTracking of the AfterShip v4 draft
getTracking_v4(r) ==
    IF Received(r).threw THEN Received(r)
    ELSE IF ~r.httpOk
         THEN Throw(Or(r.msg, "Failed to get tracking"))
    ELSE IF ~r.hasData THEN Throw(NoDataFailed)
    ELSE Return(r.body)

\* createTracking of the AfterShip 2024-07 draft: returns data.data
createTracking_2024(r) ==
    IF Received(r).threw THEN Received(r)
    ELSE IF ~r.httpOk
         THEN Throw(IF r.code = AlreadyExistsCode THEN "4003: Tracking already exists"
                     ELSE Or(r.msg, "API error: 400"))
    ELSE Return(r.body)

\* getTrackingById of the AfterShip 2024-07 draft: the first listed tracking
getTrackingById(r) ==
    IF Received(r).threw THEN Received(r)
    ELSE IF ~r.httpOk
         THEN Throw(Or(r.msg, "API error: 404"))
    ELSE IF (~r.hasData) \/ Len(r.body) = 0
         THEN Throw("Tracking not found")
    ELSE Return(r.body[1])

\* registerTracking of the 17TRACK draft: any parsed body is returned, whatever
\* its code and whatever the HTTP status
registerTracking(r) == Received(r)

\* getTrackingInfo of the 17TRACK draft: response.ok is not looked at
getTrackingInfo(r) ==
    IF Received(r).threw THEN Received(r)
    ELSE IF r.code # 0
         THEN Throw(Or(r.msg, "API error: code"))
    ELSE Return(IF r.hasData THEN r.body ELSE << >>)

-----------------------------------------------------------------------------
(* checkTrackingStatus.                                                    *)

\* getMockTrackingData of the deployed draft
getMockTrackingData(tn, c) ==
    IF variant = "aftership_v4"
    THEN Res("in_transit", "green", Or(c, Or(detectCarrier(tn), "usps")),
             DateAt(now), "Los Angeles, CA", "Package is in transit", NullTime, ABSENT)
    ELSE Res("in_transit", "green", Or(c, Or(detectCarrier(tn), "usps")),
             DateAt(now), "In Transit", "Package is on its way", NullTime, ABSENT)

\* a variant of the catch block that drops the message of the Error
Fallback_withoutError(tn, c, message) ==
    Res("unknown", "yellow", Or(c, Or(detectCarrier(tn), "unknown")),
        DateAt(now), NULL, NULL, AbsentTime, ABSENT)

\* the catch block of checkTrackingStatus: the safe fallback
Fallback(tn, c, message) ==
    IF variant = "mock"
    THEN Res("unknown", "yellow", Or(c, "unknown"), DateAt(now), NULL, ABSENT,
             AbsentTime, message)
    ELSE Res("unknown", "yellow", Or(c, Or(detectCarrier(tn), "unknown")),
             DateAt(now), NULL, NULL, AbsentTime, message)

\* return normalized, or the fallback when the try block threw
Settle(outcome) ==
    IF outcome.threw THEN Fallback(trackingNumber, carrier, outcome.error)
    ELSE outcome.value

\* what is remembered of a request: which one it was, the provider's answer
\* (of its payload the status token and the number of items only), and whether
\* the request function threw, with the message of its Error
LogEntry(req, r, tag, items, threw, error) ==
    [req |-> req, net |-> r.net, json |-> r.json, httpOk |-> r.httpOk,
     code |-> r.code, hasData |-> r.hasData, tag |-> tag, items |-> items,
     threw |-> threw, error |-> IF threw THEN error ELSE ""]

\* the status token of an AfterShip tracking and of a 17TRACK answer
tagOf(tracking) == IF tracking.defined THEN tracking.tag ELSE ABSENT
statusOf(accepted, tn) ==
    IF find(accepted, tn).track_info.defined
    THEN find(accepted, tn).track_info.latest_status ELSE ABSENT

CanCall == pc \in {"idle", "done"}

\* first draft: no provider request is made at all
CheckMock(tn, c) ==
    /\ CanCall /\ variant = "mock"
    /\ trackingNumber' = tn /\ carrier' = c
    /\ log' = << >> /\ held' = ""
    /\ result' = LET outcome == normalizeTrackingData(fetchTrackingData(c))
                 IN IF outcome.threw THEN Fallback(tn, c, outcome.error)
                    ELSE outcome.value
    /\ pc' = "done"
    /\ UNCHANGED << otherVars, variant, apiKey, now, rc, memo >>

\* no API key: the mock record
CheckNoKey(tn, c) ==
    /\ CanCall /\ variant \in ProviderVariants /\ ~apiKey
    /\ trackingNumber' = tn /\ carrier' = c
    /\ log' = << >> /\ held' = ""
    /\ result' = getMockTrackingData(tn, c)
    /\ pc' = "done"
    /\ UNCHANGED << otherVars, variant, apiKey, now, rc, memo >>

\* a variant of the start of a check that never looks at the API key
CheckStart_withoutKeyTest(tn, c) ==
    /\ CanCall /\ variant \in ProviderVariants
    /\ trackingNumber' = tn /\ carrier' = c
    /\ log' = << >> /\ held' = "checkTrackingStatus"
    /\ result' = NoResult
    /\ pc' = IF variant = "track17" THEN "register" ELSE "create"
    /\ UNCHANGED << otherVars, variant, apiKey, now, rc, memo >>

\* with an API key: the create (AfterShip) or register (17TRACK) request goes out
CheckStart(tn, c) ==
    /\ CanCall /\ variant \in ProviderVariants /\ apiKey
    /\ trackingNumber' = tn /\ carrier' = c
    /\ log' = << >> /\ held' = "checkTrackingStatus"
    /\ result' = NoResult
    /\ pc' = IF variant = "track17" THEN "register" ELSE "create"
    /\ UNCHANGED << otherVars, variant, apiKey, now, rc, memo >>

\* AfterShip v4: the answer to POST /trackings
CreateResponds_v4(r) ==
    /\ pc = "create" /\ variant = "aftership_v4"
    /\ LET out == createTracking_v4(r) IN
       /\ log' = Append(log, LogEntry("create", r, tagOf(r.body), 1,
                                      out.threw /\ ~createTracking_v4_exists(r),
                                      out.error))
       /\ IF createTracking_v4_exists(r)
          THEN \* createTracking itself calls getTracking
               /\ pc' = "get" /\ held' = "createTracking" /\ result' = result
          ELSE IF out.threw
          THEN \* the inner catch of checkTrackingStatus calls getTracking
               /\ pc' = "get" /\ held' = "catch" /\ result' = result
          ELSE /\ pc' = "done" /\ held' = ""
               /\ result' = Settle(normalizeAfterShipData_v4(out.value))
    /\ UNCHANGED << otherVars, variant, apiKey, now, rc, memo, trackingNumber, carrier >>

\* AfterShip v4: the answer to GET /trackings/:slug/:number
GetResponds_v4(r) ==
    /\ pc = "get" /\ variant = "aftership_v4"
    /\ LET out == getTracking_v4(r) IN
       /\ log' = Append(log, LogEntry("get", r, tagOf(r.body), 1,
                                      out.threw, out.error))
       /\ IF out.threw /\ held = "createTracking"
          THEN \* thrown out of createTracking into the inner catch: get again
               /\ pc' = "get" /\ held' = "catch" /\ result' = result
          ELSE /\ pc' = "done" /\ held' = ""
               /\ result' = IF out.threw THEN Settle(out)
                            ELSE Settle(normalizeAfterShipData_v4(out.value))
    /\ UNCHANGED << otherVars, variant, apiKey, now, rc, memo, trackingNumber, carrier >>

\* AfterShip 2024-07: the answer to POST /trackings
CreateResponds_2024(r) ==
    /\ pc = "create" /\ variant = "aftership_2024_07"
    /\ LET out == createTracking_2024(r) IN
       /\ log' = Append(log, LogEntry("create", r, tagOf(r.body), 1,
                                      out.threw, out.error))
       /\ IF out.threw /\ SaysAlreadyExists(out.error)
          THEN /\ pc' = "list" /\ held' = "catch" /\ result' = result
          ELSE /\ pc' = "done" /\ held' = ""
               /\ result' = IF out.threw THEN Settle(out)
                            ELSE Settle(normalizeAfterShipData_2024(out.value))
    /\ UNCHANGED << otherVars, variant, apiKey, now, rc, memo, trackingNumber, carrier >>

\* AfterShip 2024-07: the answer to GET /trackings?tracking_numbers=
ListResponds_2024(r) ==
    /\ pc = "list" /\ variant = "aftership_2024_07"
    /\ LET out == getTrackingById(r) IN
       /\ log' = Append(log, LogEntry("list", r,
                                      IF Len(r.body) > 0 THEN tagOf(r.body[1])
                                      ELSE ABSENT,
                                      Len(r.body), out.threw, out.error))
       /\ pc' = "done" /\ held' = ""
       /\ result' = IF out.threw THEN Settle(out)
                    ELSE Settle(normalizeAfterShipData_2024(out.value))
    /\ UNCHANGED << otherVars, variant, apiKey, now, rc, memo, trackingNumber, carrier >>

\* 17TRACK: the answer to POST /register
RegisterResponds(r) ==
    /\ pc = "register" /\ variant = "track17"
    /\ LET out == registerTracking(r) IN
       /\ log' = Append(log, LogEntry("register", r, ABSENT, Len(r.body),
                                      out.threw, out.error))
       /\ IF out.threw
          THEN /\ pc' = "done" /\ held' = "" /\ result' = Settle(out)
          ELSE /\ pc' = "gettrackinfo" /\ held' = "checkTrackingStatus"
               /\ result' = result
    /\ UNCHANGED << otherVars, variant, apiKey, now, rc, memo, trackingNumber, carrier >>

\* 17TRACK: the answer to POST /gettrackinfo
TrackInfoResponds(r) ==
    /\ pc = "gettrackinfo" /\ variant = "track17"
    /\ LET out == getTrackingInfo(r) IN
       /\ log' = Append(log, LogEntry("gettrackinfo", r,
                                      statusOf(r.body, trackingNumber),
                                      Len(r.body), out.threw, out.error))
       /\ pc' = "done" /\ held' = ""
       /\ result' = IF out.threw THEN Settle(out)
                    ELSE Settle(normalize17TrackData(out.value, trackingNumber))
    /\ UNCHANGED << otherVars, variant, apiKey, now, rc, memo, trackingNumber, carrier >>

Init ==
    /\ variant \in Variants
    /\ apiKey \in (IF variant = "mock" THEN {FALSE} ELSE BOOLEAN)
    /\ now = T0
    /\ rc = NoCall /\ memo = NoCall
    /\ Idle /\ NoOtherCalls

Next ==
    \/ \E tn \in TrackingNumbers, c \in CarrierHints : CheckMock(tn, c)
    \/ \E tn \in TrackingNumbers, c \in CarrierHints : CheckNoKey(tn, c)
    \/ \E tn \in TrackingNumbers, c \in CarrierHints : CheckStart(tn, c)
    \/ \E r \in AfterShipResponses : CreateResponds_v4(r)
    \/ \E r \in AfterShipResponses : GetResponds_v4(r)
    \/ \E r \in AfterShipResponses : CreateResponds_2024(r)
    \/ \E r \in AfterShipListResponses : ListResponds_2024(r)
    \/ \E r \in Track17RegisterResponses : RegisterResponds(r)
    \/ \E r \in Track17Responses(trackingNumber) : TrackInfoResponds(r)

Spec == Init /\ [][Next]_vars

\* a provider request is in flight: the call is suspended in an await
Waiting == pc \in {"create", "get", "list", "register", "gettrackinfo"}

\* what the callers do: checks keep being started whenever none is in flight
CallerCalls ==
    \E tn \in TrackingNumbers, c \in CarrierHints :
        CheckMock(tn, c) \/ CheckNoKey(tn, c) \/ CheckStart(tn, c)

\* The callers are fair; the provider is not: it may leave a request without
\* an answer for ever.  The request functions pass neither a signal nor a
\* timeout to fetch and set no timer, so while a request is in flight the
\* service has no step of its own.
SpecLive == Init /\ [][Next]_vars /\ WF_vars(CallerCalls)

-----------------------------------------------------------------------------
(* The routes that check stored orders: POST /api/orders/:id/check         *)
(* (routes/orders.js), the cron sweep POST /check-tracking, and the        *)
(* dashboard's bulk check (app/page.tsx), which posts one check per        *)
(* selected order.  A database call either succeeds or rejects; the        *)
(* tracking service hands back a result or, as far as the routes can know, *)
(* rejects as well.                                                        *)

OrderKeys == {"o1", "o2"}

\* a row of the Order table, reduced to the fields the checks read and write
Row(lastStatus, riskLevel, carrierSlug, lastUpdateAt) ==
    [lastStatus |-> lastStatus, riskLevel |-> riskLevel, carrier |-> carrierSlug,
     lastUpdateAt |-> lastUpdateAt]

\* POST /api/orders stores a new order green, with no status and no check time
NewRow == Row(NULL, "green", NULL, NullTime)

\* rows as earlier checks left them, three hours before the clock of Init
StoredRows ==
    {NewRow,
     Row("in_transit", "green", "usps", DateAt(T0 - 3 * MsPerHour)),
     Row("exception", "red", "ups", DateAt(T0 - 3 * MsPerHour)),
     Row("delivered", "green", "ups", DateAt(T0 - 3 * MsPerHour))}

\* what a route reads of the object checkTrackingStatus resolves to
TrackingResult(status, riskLevel, carrierSlug) ==
    [status |-> status, riskLevel |-> riskLevel, carrier |-> carrierSlug]

\* results of the service: two normalized ones and the safe fallback
TrackingResults ==
    {TrackingResult("in_transit", "green", "usps"),
     TrackingResult("exception", "red", "ups"),
     TrackingResult("unknown", "yellow", "unknown")}

\* what awaiting checkTrackingStatus can do in a route
CheckOutcomes == {Return(r) : r \in TrackingResults} \cup {Throw("check failed")}

\* the data of prisma.order.update, applied to the row as stored
updateOrder(row, order, trackingResult) ==
    [row EXCEPT !.lastStatus = trackingResult.status,
                !.lastUpdateAt = DateAt(now),
                !.riskLevel = trackingResult.riskLevel,
                !.carrier = Or(trackingResult.carrier, order.carrier)]

\* a row of the OrderEvent table; tracking_checked carries status and carrier,
\* the two change events carry from and to
Event(orderId, type, a, b) == [orderId |-> orderId, type |-> type, a |-> a, b |-> b]

\* eventData with status_changed pushed whatever the stored status was
eventData_always(id, order, trackingResult) ==
    << Event(id, "tracking_checked", trackingResult.status,
             Or(trackingResult.carrier, Or(order.carrier, NULL))),
       Event(id, "status_changed", order.lastStatus, trackingResult.status) >>
    \o (IF order.riskLevel # trackingResult.riskLevel
        THEN << Event(id, "risk_changed", order.riskLevel, trackingResult.riskLevel) >>
        ELSE << >>)

\* eventData as POST /:id/check builds it from the order it loaded
eventData(id, order, trackingResult) ==
    << Event(id, "tracking_checked", trackingResult.status,
             Or(trackingResult.carrier, Or(order.carrier, NULL))) >>
    \o (IF order.lastStatus # trackingResult.status
        THEN << Event(id, "status_changed", order.lastStatus, trackingResult.status) >>
        ELSE << >>)
    \o (IF order.riskLevel # trackingResult.riskLevel
        THEN << Event(id, "risk_changed", order.riskLevel, trackingResult.riskLevel) >>
        ELSE << >>)

\* who may send a check: nobody signed in, the owner of the stores, a stranger
Users == {NULL, "userA", "userB"}

\* the user whose stores hold the orders
StoreOwner == "userA"

\* the Store table: each user has one store
Stores == [store_A |-> "userA", store_B |-> "userB"]

\* a lookup of stores without its where clause
getUserStoreIds_everyStore(userId) == DOMAIN Stores

\* getUserStoreIds: the ids of the stores where { userId }
getUserStoreIds(userId) == {s \in DOMAIN Stores : Stores[s] = userId}

\* every order is in the store of StoreOwner and nothing else has happened
InStoreOfOwner ==
    /\ normalizerCall = NoNormalizerCall /\ account = NoAccount /\ post = NoPost
    /\ etsy = NoEtsy /\ access = NoAccess
    /\ storeId = [id \in OrderKeys |-> "store_A"]

\* what is left of a row that has been deleted
NoRow == Row(ABSENT, ABSENT, ABSENT, AbsentTime)

\* no result yet
NoTracking == TrackingResult("", "", "")

\* the check request of an order: not sent, or one that has answered n times
IdleRequest(n) ==
    [phase |-> "idle", n |-> n, user |-> NULL, order |-> NewRow,
     trackingResult |-> NoTracking, updatedOrder |-> NewRow,
     at |-> 0, count |-> 0, logged |-> FALSE, code |-> 0,
     recommendedMessage |-> NoTemplate.out]

\* res.status(code).json(...) for the request of order id held in r
Respond(id, r, code) ==
    request' = [request EXCEPT ![id] = [r EXCEPT !.phase = "responded", !.code = code]]

\* how many check requests are sent in a behaviour
MaxChecks == 2

\* the check requests sent so far: the answered ones and the ones in flight
RECURSIVE checksSent(_)
checksSent(ids) ==
    IF ids = {} THEN 0
    ELSE LET id == CHOOSE x \in ids : TRUE
         IN request[id].n + (IF request[id].phase = "idle" THEN 0 ELSE 1)
            + checksSent(ids \ {id})

\* fetch(`${API_URL}/api/orders/${orderId}/check`, {method: 'POST'}) arrives
Arrive(id, user) ==
    [IdleRequest(request[id].n) EXCEPT !.phase = "arrived", !.user = user]

\* checkTracking of the dashboard, or any client posting one check
CheckTracking(id, user) ==
    /\ request[id].phase = "idle" /\ checksSent(OrderKeys) < MaxChecks
    /\ cron.phase = "idle" /\ bulk.phase = "idle"
    /\ request' = [request EXCEPT ![id] = Arrive(id, user)]
    /\ UNCHANGED << serviceVars, laterVars, detected, template, orders, orderEvent, cron, bulk >>

\* POST /:id/check, step 1: authenticate and load the order the user owns
PostCheck(id, dbOk) ==
    /\ request[id].phase = "arrived"
    /\ IF request[id].user = NULL THEN Respond(id, request[id], 401)
       ELSE IF ~dbOk THEN Respond(id, request[id], 500)
       ELSE IF storeId[id] \notin getUserStoreIds(request[id].user)
       THEN Respond(id, request[id], 404)
       ELSE request' = [request EXCEPT ![id] =
                            [@ EXCEPT !.phase = "loaded", !.order = orders[id]]]
    /\ UNCHANGED << serviceVars, laterVars, detected, template, orders, orderEvent, cron, bulk >>

\* step 2: await checkTrackingStatus(order.trackingNumber, order.carrier)
PostCheckTrack(id, outcome) ==
    /\ request[id].phase = "loaded"
    /\ IF outcome.threw THEN Respond(id, request[id], 500)
       ELSE request' = [request EXCEPT ![id] =
                            [@ EXCEPT !.phase = "tracked", !.trackingResult = outcome.value]]
    /\ UNCHANGED << serviceVars, laterVars, detected, template, orders, orderEvent, cron, bulk >>

\* step 3: await prisma.order.update
PostCheckUpdate(id, dbOk) ==
    /\ request[id].phase = "tracked"
    /\ IF ~dbOk \/ orders[id] = NoRow THEN Respond(id, request[id], 500) /\ UNCHANGED orders
       ELSE LET row == updateOrder(orders[id], request[id].order, request[id].trackingResult)
            IN /\ orders' = [orders EXCEPT ![id] = row]
               /\ request' = [request EXCEPT ![id] =
                                  [@ EXCEPT !.phase = "updated", !.updatedOrder = row]]
    /\ UNCHANGED << serviceVars, laterVars, detected, template, orderEvent, cron, bulk >>

\* steps 4, 4b and 5: the template, the events (a failed createMany is logged
\* to the console and dropped; it fails too when the order has been deleted
\* meanwhile, by the foreign key) and res.json
PostCheckLog(id, dbOk) ==
    /\ request[id].phase = "updated"
    /\ LET r == request[id]
           data == eventData(id, r.order, r.trackingResult)
           message == getMessageTemplate(r.trackingResult.status, r.trackingResult.riskLevel, id)
           created == dbOk /\ orders[id] # NoRow
       IN /\ orderEvent' = IF created THEN orderEvent \o data ELSE orderEvent
          /\ Respond(id, [r EXCEPT !.at = Len(orderEvent),
                                   !.count = IF created THEN Len(data) ELSE 0,
                                   !.logged = created,
                                   !.recommendedMessage = message], 200)
    /\ UNCHANGED << serviceVars, laterVars, detected, template, orders, cron, bulk >>

\* the single check's client reads the answer
Receive(id) ==
    /\ request[id].phase = "responded" /\ bulk.phase = "idle"
    /\ request' = [request EXCEPT ![id] = IdleRequest(@.n + 1)]
    /\ UNCHANGED << serviceVars, laterVars, detected, template, orders, orderEvent, cron, bulk >>

-----------------------------------------------------------------------------
(* POST /api/cron/check-tracking (routes/cron.js)                          *)

\* take: 100
SweepLimit == 100

\* new Date(Date.now() - 2 * 60 * 60 * 1000)
twoHoursAgo == now - 2 * MsPerHour

\* the where clause of the sweep's findMany.  The filters are SQL
\* comparisons: neither { not: 'delivered' } nor { lt: twoHoursAgo } is true
\* of a null column, so a row with no lastStatus is not selected.
eligible(row) ==
    /\ row.lastStatus # NULL /\ row.lastStatus # "delivered"
    /\ \/ row.lastUpdateAt = NullTime
       \/ row.lastUpdateAt.k = "date" /\ row.lastUpdateAt.t < twoHoursAgo

\* orderBy: { lastUpdateAt: 'asc' }: nulls last, equal times in any order
ascending(a, b) ==
    \/ b.lastUpdateAt = NullTime
    \/ a.lastUpdateAt # NullTime /\ a.lastUpdateAt.t <= b.lastUpdateAt.t

\* every array findMany may resolve to
findMany ==
    LET ids == {id \in OrderKeys : eligible(orders[id])}
        n == Cardinality(ids)
        sorted == {s \in [1..n -> ids] :
                      /\ \A j, k \in 1..n : j # k => s[j] # s[k]
                      /\ \A j, k \in 1..n : j < k => ascending(orders[s[j]], orders[s[k]])}
    IN {SubSeq(s, 1, IF n < SweepLimit THEN n ELSE SweepLimit) : s \in sorted}

\* what became of one order of the sweep
Outcome(id, kind, trackingResult) == [id |-> id, kind |-> kind, trackingResult |-> trackingResult]

\* a sweep that has loaded its orders
Sweep(selected) ==
    [phase |-> "check", failed |-> FALSE, selected |-> selected, orders |-> orders,
     i |-> 1, trackingResult |-> NoTracking, checked |-> 0, updated |-> 0,
     errors |-> 0, riskChanges |-> << >>, outcomes |-> << >>,
     summary |-> [totalChecked |-> 0, riskUpdated |-> 0, errors |-> 0,
                  highRiskAlerts |-> 0]]

\* the request passes verifyCronSecret; findMany resolves, or rejects into
\* the outer catch: 500 "Cron job failed"
CronStart(dbOk) ==
    /\ cron.phase = "idle" /\ bulk.phase = "idle"
    /\ \A id \in OrderKeys : request[id].phase = "idle"
    /\ IF dbOk THEN \E selected \in findMany : cron' = Sweep(selected)
       ELSE cron' = [Sweep(<< >>) EXCEPT !.phase = "done", !.failed = TRUE]
    /\ UNCHANGED << serviceVars, laterVars, detected, template, orders, orderEvent, bulk, request >>

\* a per-order error that ends the loop instead of being counted
catchOrder_rethrow(c, kind) ==
    [c EXCEPT !.phase = "done", !.failed = TRUE,
              !.outcomes = Append(@, Outcome(c.selected[c.i], kind, NoTracking))]

\* catch (err) { errors++ } of the loop body, and on to the next order
catchOrder(c, kind) ==
    [c EXCEPT !.errors = @ + 1, !.i = @ + 1, !.phase = "check",
              !.outcomes = Append(@, Outcome(c.selected[c.i], kind, NoTracking))]

\* the loop body up to its first await: checkTrackingStatus
CronCheck(outcome) ==
    /\ cron.phase = "check" /\ cron.i <= Len(cron.selected)
    /\ cron' = IF outcome.threw THEN catchOrder(cron, "check_failed")
               ELSE [cron EXCEPT !.phase = "update", !.trackingResult = outcome.value]
    /\ UNCHANGED << serviceVars, laterVars, detected, template, orders, orderEvent, bulk, request >>

\* the rest of the loop body: prisma.order.update, the counters, riskChanges
CronUpdate(dbOk) ==
    /\ cron.phase = "update"
    /\ LET id == cron.selected[cron.i]
           order == cron.orders[id]
           r == cron.trackingResult
           riskChanged == order.riskLevel # r.riskLevel
       IN IF ~dbOk
          THEN cron' = catchOrder(cron, "update_failed") /\ UNCHANGED orders
          ELSE /\ orders' = [orders EXCEPT ![id] = updateOrder(@, order, r)]
               /\ cron' = [cron EXCEPT
                    !.phase = "check", !.i = @ + 1, !.checked = @ + 1,
                    !.updated = IF riskChanged THEN @ + 1 ELSE @,
                    !.riskChanges = IF riskChanged
                                    THEN Append(@, [orderId |-> id, oldRisk |-> order.riskLevel,
                                                    newRisk |-> r.riskLevel, status |-> r.status])
                                    ELSE @,
                    !.outcomes = Append(@, Outcome(id, "checked", r))]
    /\ UNCHANGED << serviceVars, laterVars, detected, template, orderEvent, bulk, request >>

\* after the loop: the summary and res.json(result)
CronRespond ==
    /\ cron.phase = "check" /\ cron.i > Len(cron.selected)
    /\ cron' = [cron EXCEPT !.phase = "done",
                  !.summary = [totalChecked |-> cron.checked, riskUpdated |-> cron.updated,
                               errors |-> cron.errors,
                               highRiskAlerts |->
                                   Len(SelectSeq(cron.riskChanges, LAMBDA c : c.newRisk = "red"))]]
    /\ UNCHANGED << serviceVars, laterVars, detected, template, orders, orderEvent, bulk, request >>

-----------------------------------------------------------------------------
(* checkSelectedTracking of the dashboard (app/page.tsx)                   *)

\* Array.from(selectedOrders): the selected ids in the order they were picked
Selections ==
    {s \in UNION {[1..n -> OrderKeys] : n \in 1..Cardinality(OrderKeys)} :
        \A j, k \in 1..Len(s) : j # k => s[j] # s[k]}

\* an element of the array Promise.allSettled resolves to, or a promise of
\* it that has not settled yet
Settled(status, hasOrder, order) == [status |-> status, hasOrder |-> hasOrder, order |-> order]
Pending == Settled("pending", FALSE, NewRow)

\* the fetches of all selected orders are sent at once, as the signed-in user
BulkStart(orderIds) ==
    /\ bulk.phase = "idle" /\ cron.phase = "idle"
    /\ \A id \in OrderKeys : request[id].phase = "idle"
    /\ checksSent(OrderKeys) + Len(orderIds) <= MaxChecks
    /\ bulk' = [phase |-> "waiting", orderIds |-> orderIds,
                results |-> [k \in 1..Len(orderIds) |-> Pending],
                checked |-> 0, failed |-> 0, before |-> orders, view |-> orders]
    /\ request' = [id \in OrderKeys |->
                      IF \E k \in 1..Len(orderIds) : orderIds[k] = id
                      THEN Arrive(id, StoreOwner) ELSE request[id]]
    /\ UNCHANGED << serviceVars, laterVars, detected, template, orders, orderEvent, cron >>

\* a response arrives and res.json() parses it: the promise is fulfilled
BulkSettle(k) ==
    /\ bulk.phase = "waiting" /\ k \in 1..Len(bulk.orderIds)
    /\ bulk.results[k] = Pending
    /\ LET id == bulk.orderIds[k]
       IN /\ request[id].phase = "responded"
          /\ bulk' = [bulk EXCEPT !.results[k] =
                         IF request[id].code = 200
                         THEN Settled("fulfilled", TRUE, request[id].updatedOrder)
                         ELSE Settled("fulfilled", FALSE, NewRow)]
          /\ request' = [request EXCEPT ![id] = IdleRequest(@.n + 1)]
    /\ UNCHANGED << serviceVars, laterVars, detected, template, orders, orderEvent, cron >>

\* the request is lost on its way, or the answer is: the promise is rejected
BulkReject(k) ==
    /\ bulk.phase = "waiting" /\ k \in 1..Len(bulk.orderIds)
    /\ bulk.results[k] = Pending
    /\ LET id == bulk.orderIds[k]
       IN /\ request[id].phase \in {"arrived", "responded"}
          /\ bulk' = [bulk EXCEPT !.results[k] = Settled("rejected", FALSE, NewRow)]
          /\ request' = [request EXCEPT ![id] = IdleRequest(@.n + 1)]
    /\ UNCHANGED << serviceVars, laterVars, detected, template, orders, orderEvent, cron >>

\* how many of results[1..n] the forEach counts as checked
RECURSIVE countChecked(_, _)
countChecked(results, n) ==
    IF n = 0 THEN 0
    ELSE countChecked(results, n - 1)
         + (IF results[n].status = "fulfilled" /\ results[n].hasOrder THEN 1 ELSE 0)

\* how many it counts as failed: every other one
countFailed(results, n) == n - countChecked(results, n)

\* results.forEach(...), once every promise has settled
BulkCount ==
    /\ bulk.phase = "waiting"
    /\ \A k \in 1..Len(bulk.orderIds) : bulk.results[k] # Pending
    /\ LET n == Len(bulk.orderIds)
       IN bulk' = [bulk EXCEPT
            !.phase = "done",
            !.checked = countChecked(bulk.results, n),
            !.failed = countFailed(bulk.results, n),
            !.view = [id \in OrderKeys |->
                        IF \E k \in 1..n : /\ bulk.orderIds[k] = id
                                           /\ bulk.results[k].status = "fulfilled"
                                           /\ bulk.results[k].hasOrder
                        THEN bulk.results[CHOOSE k \in 1..n : bulk.orderIds[k] = id].order
                        ELSE bulk.view[id]]]
    /\ UNCHANGED << serviceVars, laterVars, detected, template, orders, orderEvent, cron, request >>

-----------------------------------------------------------------------------
(* The stored orders and everything that checks them                       *)

InitOrders ==
    /\ variant = "aftership_v4" /\ apiKey = FALSE /\ now = T0
    /\ rc = NoCall /\ memo = NoCall
    /\ Idle /\ detected = NoDetect /\ template = NoTemplate /\ InStoreOfOwner
    /\ orders \in [OrderKeys -> StoredRows]
    /\ orderEvent = << >>
    /\ cron = NoCron /\ bulk = NoBulk
    /\ request = [id \in OrderKeys |-> IdleRequest(0)]

NextOrders ==
    \/ \E id \in OrderKeys, user \in Users : CheckTracking(id, user)
    \/ \E id \in OrderKeys, dbOk \in BOOLEAN : PostCheck(id, dbOk)
    \/ \E id \in OrderKeys, outcome \in CheckOutcomes : PostCheckTrack(id, outcome)
    \/ \E id \in OrderKeys, dbOk \in BOOLEAN : PostCheckUpdate(id, dbOk)
    \/ \E id \in OrderKeys, dbOk \in BOOLEAN : PostCheckLog(id, dbOk)
    \/ \E id \in OrderKeys : Receive(id)
    \/ \E dbOk \in BOOLEAN : CronStart(dbOk)
    \/ \E outcome \in CheckOutcomes : CronCheck(outcome)
    \/ \E dbOk \in BOOLEAN : CronUpdate(dbOk)
    \/ CronRespond
    \/ \E orderIds \in Selections : BulkStart(orderIds)
    \/ \E k \in 1..Cardinality(OrderKeys) : BulkSettle(k) \/ BulkReject(k)
    \/ BulkCount

SpecOrders == InitOrders /\ [][NextOrders]_vars

-----------------------------------------------------------------------------
(* Manual checks and the sweep working on the same rows at the same time.  *)
(* Nothing in routes/orders.js or routes/cron.js keeps one from starting   *)
(* while the other is between two awaits.                                  *)

\* how many times three hours pass between requests
MaxWaits == 1

\* three hours pass: rows checked before become eligible for the sweep
Wait ==
    /\ now < T0 + MaxWaits * 3 * MsPerHour
    /\ now' = now + 3 * MsPerHour
    /\ UNCHANGED << otherVars, variant, apiKey, rc, memo, pc, trackingNumber, carrier,
                    log, held, result >>

\* an order as POST /api/orders stores it: carrier || null, no status yet
createOrder(c) == Row(NULL, "green", Or(c, NULL), NullTime)

\* trackings AfterShip answers with: an exception, a parcel on its way, and a
\* parcel whose record names no slug
TrackingsOfOrders ==
    [defined : {TRUE}, tag : {"Exception", "InTransit"}, slug : {"ups"},
     checkpoints : {<< >>}, created_at : {UndefinedTime},
     expected_delivery : {UndefinedTime}]
    \cup [defined : {TRUE}, tag : {"InTransit"}, slug : {ABSENT},
          checkpoints : {<< >>}, created_at : {UndefinedTime},
          expected_delivery : {UndefinedTime}]

\* the fields of a result the routes store and log
stored(r) == TrackingResult(r.status, r.riskLevel, r.carrier)

\* what awaiting checkTrackingStatus(order.trackingNumber, order.carrier) can
\* give for an order: a normalized tracking, the fallback, or a rejection
checkTrackingStatus(order) ==
    {Return(stored(normalizeAfterShipData_v4(t).value)) : t \in TrackingsOfOrders}
    \cup {Return(stored(Fallback(TN_garbage, order.carrier, "Tracking service temporarily unavailable"))),
          Throw("check failed")}

\* a client posts one check, whatever else is running
PostCheckRequest(id) ==
    /\ request[id].phase = "idle" /\ checksSent(OrderKeys) < MaxChecks
    /\ request' = [request EXCEPT ![id] = Arrive(id, StoreOwner)]
    /\ UNCHANGED << serviceVars, laterVars, detected, template, orders, orderEvent, cron, bulk >>

\* the scheduler posts the sweep, whatever else is running
CronRequest ==
    /\ cron.phase = "idle"
    /\ \E selected \in findMany : cron' = Sweep(selected)
    /\ UNCHANGED << serviceVars, laterVars, detected, template, orders, orderEvent, bulk, request >>

InitInterleave ==
    /\ variant = "aftership_v4" /\ apiKey = TRUE /\ now = T0
    /\ rc = NoCall /\ memo = NoCall
    /\ Idle /\ detected = NoDetect /\ template = NoTemplate /\ InStoreOfOwner
    /\ orders = [id \in OrderKeys |-> createOrder(IF id = "o1" THEN "ups" ELSE NULL)]
    /\ orderEvent = << >>
    /\ cron = NoCron /\ bulk = NoBulk
    /\ request = [id \in OrderKeys |-> IdleRequest(0)]

\* every database call succeeds here: what goes wrong is the interleaving
NextInterleave ==
    \/ \E id \in OrderKeys : PostCheckRequest(id)
    \/ \E id \in OrderKeys : PostCheck(id, TRUE)
    \/ \E id \in OrderKeys :
          /\ request[id].phase = "loaded"
          /\ \E outcome \in checkTrackingStatus(request[id].order) : PostCheckTrack(id, outcome)
    \/ \E id \in OrderKeys : PostCheckUpdate(id, TRUE)
    \/ \E id \in OrderKeys : PostCheckLog(id, TRUE)
    \/ \E id \in OrderKeys : Receive(id)
    \/ CronRequest
    \/ /\ cron.phase = "check" /\ cron.i <= Len(cron.selected)
       /\ \E outcome \in checkTrackingStatus(cron.orders[cron.selected[cron.i]]) :
              CronCheck(outcome)
    \/ CronUpdate(TRUE)
    \/ CronRespond
    \/ Wait

SpecInterleave == InitInterleave /\ [][NextInterleave]_vars

-----------------------------------------------------------------------------
(* GET /api/orders, GET /api/orders/:id and DELETE /api/orders/:id of      *)
(* routes/orders.js, with one order in the store of userB and one that has *)
(* no store yet                                                            *)

\* res.status(code).json(...) of the last of these requests; body holds the
\* ids of the orders in the answer
Answer(op, userId, id, code, body) ==
    [phase |-> "responded", op |-> op, user |-> userId, id |-> id, code |-> code,
     body |-> body]

\* prisma.order.findFirst({ where: { id, storeId: { in: storeIds } } })
findFirst(id, storeIds) == storeId[id] \in storeIds

\* GET /:id
GetOrder(userId, id, dbOk) ==
    /\ access' = IF userId = NULL THEN Answer("get", userId, id, 401, {})
                 ELSE IF ~dbOk THEN Answer("get", userId, id, 500, {})
                 ELSE IF ~findFirst(id, getUserStoreIds(userId))
                 THEN Answer("get", userId, id, 404, {})
                 ELSE Answer("get", userId, id, 200, {id})
    /\ UNCHANGED << serviceVars, detected, template, storeVars, normalizerCall, account,
                    post, etsy, storeId >>

\* DELETE /:id: the events and the order go in one transaction
DeleteOrder(userId, id, dbOk) ==
    /\ IF userId = NULL \/ ~dbOk \/ ~findFirst(id, getUserStoreIds(userId))
       THEN /\ access' = Answer("delete", userId, id,
                                IF userId = NULL THEN 401 ELSE IF ~dbOk THEN 500 ELSE 404, {})
            /\ UNCHANGED << orders, orderEvent, storeId >>
       ELSE /\ access' = Answer("delete", userId, id, 200, {})
            /\ orderEvent' = SelectSeq(orderEvent, LAMBDA e : e.orderId # id)
            /\ orders' = [orders EXCEPT ![id] = NoRow]
            /\ storeId' = [storeId EXCEPT ![id] = ABSENT]
    /\ UNCHANGED << serviceVars, detected, template, cron, bulk, request, normalizerCall,
                    account, post, etsy >>

\* GET /: orders without a store are first given to the user's default
\* store; failed names the await that rejects, if one does
ListOrders(userId, failed) ==
    LET storeIds == getUserStoreIds(userId)
        assigned == [id \in OrderKeys |->
                        IF storeIds # {} /\ storeId[id] = NULL
                        THEN CHOOSE s \in storeIds : TRUE ELSE storeId[id]]
    IN /\ IF userId = NULL
          THEN access' = Answer("list", userId, "", 401, {}) /\ UNCHANGED storeId
          ELSE IF failed = "getUserStoreIds"
          THEN access' = Answer("list", userId, "", 500, {}) /\ UNCHANGED storeId
          ELSE IF failed = "findMany"
          THEN access' = Answer("list", userId, "", 500, {}) /\ storeId' = assigned
          ELSE /\ storeId' = assigned
               /\ access' = Answer("list", userId, "", 200,
                                   {id \in OrderKeys : assigned[id] \in storeIds})
       /\ UNCHANGED << serviceVars, detected, template, storeVars, normalizerCall, account,
                       post, etsy >>

\* how many check requests are sent beside the other requests
MaxAccessChecks == 1

InitAccess ==
    /\ variant = "aftership_v4" /\ apiKey = FALSE /\ now = T0
    /\ rc = NoCall /\ memo = NoCall
    /\ Idle /\ detected = NoDetect /\ template = NoTemplate
    /\ normalizerCall = NoNormalizerCall /\ account = NoAccount /\ post = NoPost
    /\ etsy = NoEtsy /\ access = NoAccess
    /\ storeId = [id \in OrderKeys |-> IF id = "o1" THEN "store_B" ELSE NULL]
    /\ orders = [id \in OrderKeys |-> createOrder(IF id = "o1" THEN "ups" ELSE NULL)]
    /\ orderEvent = << >>
    /\ cron = NoCron /\ bulk = NoBulk
    /\ request = [id \in OrderKeys |-> IdleRequest(0)]

NextAccess ==
    \/ \E id \in OrderKeys, userId \in Users :
          checksSent(OrderKeys) < MaxAccessChecks /\ CheckTracking(id, userId)
    \/ \E id \in OrderKeys, dbOk \in BOOLEAN : PostCheck(id, dbOk)
    \/ \E id \in OrderKeys, outcome \in CheckOutcomes : PostCheckTrack(id, outcome)
    \/ \E id \in OrderKeys : PostCheckUpdate(id, TRUE)
    \/ \E id \in OrderKeys : PostCheckLog(id, TRUE)
    \/ \E id \in OrderKeys : Receive(id)
    \/ \E id \in OrderKeys, userId \in Users, dbOk \in BOOLEAN : GetOrder(userId, id, dbOk)
    \/ \E id \in OrderKeys, userId \in Users, dbOk \in BOOLEAN : DeleteOrder(userId, id, dbOk)
    \/ \E userId \in Users, failed \in {"", "getUserStoreIds", "findMany"} :
          ListOrders(userId, failed)

SpecAccess == InitAccess /\ [][NextAccess]_vars

-----------------------------------------------------------------------------
(* The scheduler posting the sweep again and again, every check and every  *)
(* update of it succeeding                                                 *)

\* the response is sent and the request is over
CronEnd ==
    /\ cron.phase = "done"
    /\ cron' = NoCron
    /\ UNCHANGED << serviceVars, laterVars, detected, template, orders, orderEvent, bulk, request >>

\* a step of a sweep whose awaits all resolve
CronSucceeds ==
    \/ CronRequest
    \/ \E r \in TrackingResults : CronCheck(Return(r))
    \/ CronUpdate(TRUE)
    \/ CronRespond
    \/ CronEnd

NextSweeps == CronSucceeds \/ Wait

\* the scheduler keeps posting and the handler keeps running
SpecSweeps == InitOrders /\ [][NextSweeps]_vars /\ WF_vars(CronSucceeds)

-----------------------------------------------------------------------------
(* The normalizers called directly, one provider record at a time.         *)

\* statusMap[tag] of the original AfterShip v4 draft: no AvailableForPickup
statusMap_aftership_original(tag) ==
    IF tag = "AvailableForPickup" THEN UNDEFINED ELSE statusMap_aftership(tag)

\* normalizeAfterShipData of the original AfterShip v4 draft: the latest
\* checkpoint is checkpoints[0], and a tracking without one is dated
\* new Date(tracking.created_at), whatever created_at is
normalizeAfterShipData_v4_original(tracking) ==
    IF ~tracking.defined THEN Throw("Cannot read properties of undefined (reading 'tag')")
    ELSE
    LET aftershipTag == Or(tracking.tag, "Pending")
        status == Or(statusMap_aftership_original(aftershipTag), "unknown")
        checkpoints == tracking.checkpoints
        hasCheckpoint == Len(checkpoints) > 0
        latestCheckpoint == checkpoints[1]
        lastUpdate ==
            IF hasCheckpoint /\ Truthy(latestCheckpoint.checkpoint_time)
            THEN asDate(latestCheckpoint.checkpoint_time)
            ELSE asDate(tracking.created_at)
        riskLevel == calculateRiskLevel_v4(status, lastUpdate)
        parts == push(push(push(<< >>, latestCheckpoint.city),
                           latestCheckpoint.state), latestCheckpoint.country_iso3)
        location == IF hasCheckpoint THEN Or(join(parts), NULL) ELSE NULL
        message == IF hasCheckpoint THEN Or(latestCheckpoint.message, NULL) ELSE NULL
    IN  IF riskLevel = TYPE_ERROR THEN Throw(TypeErrorMessage)
        ELSE Return(Res(status, riskLevel, Or(tracking.slug, "unknown"),
                        lastUpdate, location, message,
                        IF Truthy(tracking.expected_delivery)
                        THEN asDate(tracking.expected_delivery) ELSE NullTime,
                        ABSENT))

\* carrier responses handed to the first draft's normalizer: the fixed one, one
\* whose event has no location, one whose location has no state, one whose
\* event is 50 hours old, and one without events
CarrierResponses ==
    LET fixed == fetchTrackingData(NULL)
        event == fixed.tracking_details[1]
    IN {fixed,
        [fixed EXCEPT !.tracking_details =
            << [event EXCEPT !.tracking_location =
                  [defined |-> FALSE, city |-> ABSENT, state |-> ABSENT]] >>],
        [fixed EXCEPT !.tracking_details =
            << [event EXCEPT !.tracking_location =
                  [defined |-> TRUE, city |-> "Los Angeles", state |-> UNDEFINED]] >>],
        [fixed EXCEPT !.tracking_details =
            << [event EXCEPT !.datetime = DateAt(T0 - 50 * MsPerHour)] >>],
        [fixed EXCEPT !.tracking_details = << >>]}

NormalizerImplementations ==
    {"mock", "aftership_v4", "aftership_v4_original", "aftership_2024_07", "track17"}

\* the provider records an implementation is given
RecordsOf(impl) ==
    CASE impl = "mock" -> CarrierResponses
      [] impl = "track17" -> Entries17Track(TN_ups)
      [] OTHER -> AfterShipTrackings \ {UndefinedTracking}

\* the normalizer of an implementation applied to one provider record
normalizeOf(impl, record) ==
    CASE impl = "mock" -> normalizeTrackingData(record)
      [] impl = "aftership_v4" -> normalizeAfterShipData_v4(record)
      [] impl = "aftership_v4_original" -> normalizeAfterShipData_v4_original(record)
      [] impl = "aftership_2024_07" -> normalizeAfterShipData_2024(record)
      [] impl = "track17" -> normalize17TrackData(<< record >>, record.number)

Normalize(impl, record) ==
    /\ normalizerCall' = [called |-> TRUE, impl |-> impl, record |-> record,
                          out |-> normalizeOf(impl, record)]
    /\ UNCHANGED << serviceVars, detected, template, storeVars,
                    account, post, etsy, storeId, access >>

NextNormalize ==
    \E impl \in NormalizerImplementations : \E record \in RecordsOf(impl) :
        Normalize(impl, record)

SpecNormalize == InitCalls /\ [][NextNormalize]_vars

-----------------------------------------------------------------------------
(* POST /api/orders (routes/orders.js): the monthly limit of the free plan. *)
(* The handler is followed from await to await; between two awaits other    *)
(* requests of the same user may run.                                       *)

\* const FREE_ORDER_LIMIT = 10
FREE_ORDER_LIMIT == 10

\* the calendar month of the clock began five days before T0
MonthStart == T0 - 5 * MsPerDay

\* a row of the User table
User(planType, monthlyOrderCount, orderCountResetAt, subscriptionId, subscriptionStatus) ==
    [exists |-> TRUE, planType |-> planType, monthlyOrderCount |-> monthlyOrderCount,
     orderCountResetAt |-> orderCountResetAt, subscriptionId |-> subscriptionId,
     subscriptionStatus |-> subscriptionStatus]

\* the row an upsert creates: the schema's defaults
NewUser == User("free", 0, NullTime, NULL, NULL)

\* prisma.user.upsert({ update: {}, create: {...} })
upsertUser(row) == IF row.exists THEN row ELSE NewUser

\* shouldResetOrderCount: no reset date yet, or one of another month or year
shouldResetOrderCount(orderCountResetAt) ==
    \/ ~Truthy(orderCountResetAt)
    \/ orderCountResetAt.t < MonthStart

\* the requests that may be in flight together
PostIds == {1, 2}

\* orderId values of the request body: two new ones, one that exists, none
PostedOrderIds == {"A1", "A2", "A0", ""}

IdlePost ==
    [phase |-> "idle", orderId |-> "", user |-> NewUser, code |-> 0, wrote |-> FALSE]

\* the users tried: free ones one order below the limit and at it, one whose
\* count is of last month, a subscriber, and one that does not exist yet
Accounts ==
    {[exists |-> FALSE],
     User("free", FREE_ORDER_LIMIT - 1, DateAt(T0 - MsPerDay), NULL, NULL),
     User("free", FREE_ORDER_LIMIT, DateAt(T0 - MsPerDay), NULL, NULL),
     User("free", FREE_ORDER_LIMIT, DateAt(T0 - 6 * MsPerDay), NULL, NULL),
     User("pro", FREE_ORDER_LIMIT, DateAt(T0 - MsPerDay), "sub_1", "active")}

\* how many orders the user of a row has created in the month of the clock
createdThisMonth(row) ==
    IF row.exists /\ ~shouldResetOrderCount(row.orderCountResetAt)
    THEN row.monthlyOrderCount ELSE 0

\* res.status(code).json(...)
RespondPost(p, code) ==
    post' = [post EXCEPT !.req[p].phase = "responded", !.req[p].code = code]

\* the limit test, and the request goes on to create the order or is refused
limitCheck(p, user) ==
    IF user.planType # "pro" /\ user.monthlyOrderCount >= FREE_ORDER_LIMIT
    THEN [post EXCEPT !.req[p].phase = "responded", !.req[p].code = 403,
                      !.req[p].user = user]
    ELSE [post EXCEPT !.req[p].phase = "create", !.req[p].user = user]

\* the request arrives authenticated; validation of the body
PostOrder(p, orderId) ==
    /\ post.req[p].phase = "idle"
    /\ post' = [post EXCEPT !.req[p] =
                   IF orderId = ""
                   THEN [IdlePost EXCEPT !.phase = "responded", !.code = 400]
                   ELSE [IdlePost EXCEPT !.phase = "ensure", !.orderId = orderId]]
    /\ UNCHANGED << serviceVars, detected, template, storeVars,
                    normalizerCall, account, etsy, storeId, access >>

\* await ensureUserAndGetStoreIds(userId)
PostEnsure(p) ==
    /\ post.req[p].phase = "ensure"
    /\ account' = upsertUser(account)
    /\ post' = [post EXCEPT !.req[p].phase = "find"]
    /\ UNCHANGED << serviceVars, detected, template, storeVars,
                    normalizerCall, etsy, storeId, access >>

\* await prisma.user.findUnique; without a reset the limit test follows at once
PostFind(p) ==
    /\ post.req[p].phase = "find"
    /\ post' = IF shouldResetOrderCount(account.orderCountResetAt)
               THEN [post EXCEPT !.req[p].phase = "reset", !.req[p].user = account]
               ELSE limitCheck(p, account)
    /\ UNCHANGED << serviceVars, detected, template, storeVars,
                    normalizerCall, account, etsy, storeId, access >>

\* await prisma.user.update({ monthlyOrderCount: 0, orderCountResetAt: new Date() })
\* and the limit test on the row it returns
PostReset(p) ==
    /\ post.req[p].phase = "reset"
    /\ account' = [account EXCEPT !.monthlyOrderCount = 0,
                                  !.orderCountResetAt = DateAt(now)]
    /\ post' = [limitCheck(p, account') EXCEPT
                   !.req[p].wrote = (account.monthlyOrderCount # 0)]
    /\ UNCHANGED << serviceVars, detected, template, storeVars,
                    normalizerCall, etsy, storeId, access >>

\* await prisma.order.create: Order.orderId is unique (P2002, answered 409)
PostCreate(p) ==
    /\ post.req[p].phase = "create"
    /\ post' = IF post.req[p].orderId \in post.orderIds
               THEN [post EXCEPT !.req[p].phase = "responded", !.req[p].code = 409]
               ELSE [post EXCEPT !.req[p].phase = "increment",
                                 !.orderIds = @ \cup {post.req[p].orderId},
                                 !.thisMonth = @ + 1]
    /\ UNCHANGED << serviceVars, detected, template, storeVars,
                    normalizerCall, account, etsy, storeId, access >>

\* await prisma.user.update({ monthlyOrderCount: { increment: 1 },
\* orderCountResetAt: user?.orderCountResetAt || new Date() }), then 201
PostIncrement(p) ==
    /\ post.req[p].phase = "increment"
    /\ account' = [account EXCEPT
           !.monthlyOrderCount = @ + 1,
           !.orderCountResetAt = IF Truthy(post.req[p].user.orderCountResetAt)
                                 THEN post.req[p].user.orderCountResetAt
                                 ELSE DateAt(now)]
    /\ post' = [post EXCEPT !.req[p].phase = "responded", !.req[p].code = 201,
                            !.req[p].wrote = TRUE]
    /\ UNCHANGED << serviceVars, detected, template, storeVars,
                    normalizerCall, etsy, storeId, access >>

InitLimit ==
    /\ variant = "aftership_v4" /\ apiKey = FALSE /\ now = T0
    /\ rc = NoCall /\ memo = NoCall
    /\ Idle /\ detected = NoDetect /\ template = NoTemplate /\ NoStore
    /\ normalizerCall = NoNormalizerCall /\ etsy = NoEtsy /\ storeId = << >>
    /\ access = NoAccess
    /\ account \in Accounts
    /\ post = [req |-> [p \in PostIds |-> IdlePost], orderIds |-> {"A0"},
               thisMonth |-> createdThisMonth(account)]

NextLimit ==
    \/ \E p \in PostIds, orderId \in PostedOrderIds : PostOrder(p, orderId)
    \/ \E p \in PostIds : PostEnsure(p)
    \/ \E p \in PostIds : PostFind(p)
    \/ \E p \in PostIds : PostReset(p)
    \/ \E p \in PostIds : PostCreate(p)
    \/ \E p \in PostIds : PostIncrement(p)

SpecLimit == InitLimit /\ [][NextLimit]_vars

-----------------------------------------------------------------------------
(* POST /api/billing/webhook (routes/billing.js)                           *)

\* how many webhook requests are followed
MaxEvents == 3

\* meta.event_name values tried: the six the switch names and one it ignores
WebhookEvents ==
    {"subscription_created", "subscription_updated", "subscription_cancelled",
     "subscription_expired", "subscription_payment_success",
     "subscription_payment_failed", "order_created"}

\* String(x)
toString(x) == IF x = UNDEFINED THEN "undefined" ELSE x

\* getOrCreateUser: upsert with update: {} and planType "free" on create
getOrCreateUser(row) == IF row.exists THEN row ELSE NewUser

\* the prisma.user.update of the case of eventName; id is payload.data?.id
\* and status is payload.data?.attributes.status
webhookUpdate(row, eventName, id, status) ==
    CASE eventName = "subscription_created" ->
             [row EXCEPT !.subscriptionId = toString(id),
                         !.subscriptionStatus = "active", !.planType = "pro"]
      [] eventName = "subscription_updated" ->
             [row EXCEPT !.subscriptionStatus = Or(status, "active")]
      [] eventName = "subscription_cancelled" ->
             [row EXCEPT !.subscriptionStatus = "cancelled"]
      [] eventName = "subscription_expired" ->
             [row EXCEPT !.subscriptionStatus = "expired", !.planType = "free",
                         !.subscriptionId = NULL]
      [] eventName = "subscription_payment_success" ->
             [row EXCEPT !.subscriptionStatus = "active", !.planType = "pro"]
      [] eventName = "subscription_payment_failed" ->
             [row EXCEPT !.subscriptionStatus = "past_due"]
      [] OTHER -> row

\* a webhook request as the log of the route keeps it
Handled(eventName, code) == [eventName |-> eventName, code |-> code]

\* the whole handler for one request
Webhook(signature, userId, eventName, id, status) ==
    /\ Len(post.events) < MaxEvents
    /\ IF signature = "missing"
       THEN /\ post' = [post EXCEPT !.events = Append(@, Handled(eventName, 400))]
            /\ UNCHANGED account
       ELSE IF signature # "digest"
       THEN /\ post' = [post EXCEPT !.events = Append(@, Handled(eventName, 401))]
            /\ UNCHANGED account
       ELSE IF userId \in {NULL, UNDEFINED}
       THEN /\ post' = [post EXCEPT !.events = Append(@, Handled(eventName, 400))]
            /\ UNCHANGED account
       ELSE /\ account' = webhookUpdate(getOrCreateUser(account), eventName, id, status)
            /\ post' = [post EXCEPT !.events = Append(@, Handled(eventName, 200))]
    /\ UNCHANGED << serviceVars, detected, template, storeVars, normalizerCall, etsy,
                    storeId, access >>

InitBilling ==
    /\ variant = "aftership_v4" /\ apiKey = FALSE /\ now = T0
    /\ rc = NoCall /\ memo = NoCall
    /\ Idle /\ detected = NoDetect /\ template = NoTemplate /\ NoStore
    /\ normalizerCall = NoNormalizerCall /\ etsy = NoEtsy /\ storeId = << >>
    /\ access = NoAccess
    /\ account \in {NoAccount, NewUser}
    /\ post = [events |-> << >>]

NextBilling ==
    \E signature \in {"missing", "forged", "digest"}, userId \in {UNDEFINED, "userA"},
       eventName \in WebhookEvents, id \in {UNDEFINED, "sub_1"},
       status \in {UNDEFINED, "paused"} :
        Webhook(signature, userId, eventName, id, status)

SpecBilling == InitBilling /\ [][NextBilling]_vars

-----------------------------------------------------------------------------
(* POST /api/etsy/sync (routes/etsy.js): two requests over the same        *)
(* receipts, one after the other or at the same time                       *)

\* a receipt of the shop: its id and the tracking code of its first
\* shipment, ABSENT when it has no shipment
Receipt(receipt_id, tracking_code) == [receipt_id |-> receipt_id, tracking_code |-> tracking_code]

\* receiptsResponse.results of every call within a behaviour
Receipts ==
    << Receipt("101", "TRK101"), Receipt("102", ABSENT), Receipt("103", NULL),
       Receipt("104", "TRK104") >>

\* the sync requests of a behaviour
SyncRuns == {"first", "second"}

\* a request that has not arrived; after holds the requests that had
\* answered 200 when this one arrived
IdleSync ==
    [phase |-> "idle", i |-> 1, imported |-> 0, skipped |-> 0, code |-> 0, after |-> {}]

\* an insert that never meets the unique index
uniqueViolation_noIndex(orderId) == FALSE

\* CREATE UNIQUE INDEX "Order_orderId_key": the insert of an orderId the
\* table holds is rejected
uniqueViolation(orderId) == orderId \in etsy.table

\* res.status(code) of request r, which is in state run
SyncRespond(r, run, code) ==
    etsy' = [etsy EXCEPT !.run[r] = [run EXCEPT !.phase = "done", !.code = code]]

\* the handler up to the loop: authentication, the connection, the token,
\* the store and getShopReceipts
SyncStart(r, outcome) ==
    /\ etsy.run[r].phase = "idle"
    /\ LET run == [etsy.run[r] EXCEPT
                      !.after = {q \in SyncRuns : /\ etsy.run[q].phase = "done"
                                                  /\ etsy.run[q].code = 200}]
       IN CASE outcome = "unauthenticated" -> SyncRespond(r, run, 401)
            [] outcome = "not_connected" -> SyncRespond(r, run, 400)
            [] outcome = "failed" -> SyncRespond(r, run, 500)
            [] OTHER -> etsy' = [etsy EXCEPT !.run[r] = [run EXCEPT !.phase = "loop"]]
    /\ UNCHANGED << serviceVars, detected, template, storeVars, normalizerCall, account,
                    post, storeId, access >>

\* a receipt without shipment or tracking code: skipped++
SyncSkip(r) ==
    /\ etsy.run[r].phase = "loop" /\ etsy.run[r].i <= Len(Receipts)
    /\ Receipts[etsy.run[r].i].tracking_code \in {ABSENT, NULL, UNDEFINED, ""}
    /\ etsy' = [etsy EXCEPT !.run[r].skipped = @ + 1, !.run[r].i = @ + 1]
    /\ UNCHANGED << serviceVars, detected, template, storeVars, normalizerCall, account,
                    post, storeId, access >>

\* await prisma.order.findUnique({ where: { orderId } })
SyncFind(r, dbOk) ==
    /\ etsy.run[r].phase = "loop" /\ etsy.run[r].i <= Len(Receipts)
    /\ Receipts[etsy.run[r].i].tracking_code \notin {ABSENT, NULL, UNDEFINED, ""}
    /\ IF ~dbOk THEN SyncRespond(r, etsy.run[r], 500)
       ELSE IF Receipts[etsy.run[r].i].receipt_id \in etsy.table
       THEN etsy' = [etsy EXCEPT !.run[r].skipped = @ + 1, !.run[r].i = @ + 1]
       ELSE etsy' = [etsy EXCEPT !.run[r].phase = "create"]
    /\ UNCHANGED << serviceVars, detected, template, storeVars, normalizerCall, account,
                    post, storeId, access >>

\* await prisma.order.create: imported++, or the rejection ends the request
SyncCreate(r, dbOk) ==
    /\ etsy.run[r].phase = "create"
    /\ LET orderId == Receipts[etsy.run[r].i].receipt_id
       IN IF ~dbOk \/ uniqueViolation(orderId) THEN SyncRespond(r, etsy.run[r], 500)
          ELSE etsy' = [etsy EXCEPT !.table = @ \cup {orderId},
                                    !.created[orderId] = @ + 1,
                                    !.run[r].imported = @ + 1, !.run[r].i = @ + 1,
                                    !.run[r].phase = "loop"]
    /\ UNCHANGED << serviceVars, detected, template, storeVars, normalizerCall, account,
                    post, storeId, access >>

\* after the loop: lastSyncAt is written and the counts are answered
SyncFinish(r, dbOk) ==
    /\ etsy.run[r].phase = "loop" /\ etsy.run[r].i > Len(Receipts)
    /\ SyncRespond(r, etsy.run[r], IF dbOk THEN 200 ELSE 500)
    /\ UNCHANGED << serviceVars, detected, template, storeVars, normalizerCall, account,
                    post, storeId, access >>

\* the table holds no order of the shop, or one entered by hand under the
\* id of a receipt
InitSync ==
    /\ variant = "aftership_v4" /\ apiKey = FALSE /\ now = T0
    /\ rc = NoCall /\ memo = NoCall
    /\ Idle /\ detected = NoDetect /\ template = NoTemplate /\ NoStore
    /\ normalizerCall = NoNormalizerCall /\ account = NoAccount /\ post = NoPost
    /\ storeId = << >> /\ access = NoAccess
    /\ \E table \in {{}, {"104"}} :
          etsy = [run |-> [r \in SyncRuns |-> IdleSync], table |-> table,
                  created |-> [k \in {Receipts[j].receipt_id : j \in 1..Len(Receipts)} |-> 0]]

NextSync ==
    \/ \E r \in SyncRuns, outcome \in {"ok", "unauthenticated", "not_connected", "failed"} :
          SyncStart(r, outcome)
    \/ \E r \in SyncRuns : SyncSkip(r)
    \/ \E r \in SyncRuns, dbOk \in BOOLEAN : SyncFind(r, dbOk)
    \/ \E r \in SyncRuns, dbOk \in BOOLEAN : SyncCreate(r, dbOk)
    \/ \E r \in SyncRuns, dbOk \in BOOLEAN : SyncFinish(r, dbOk)

SpecSync == InitSync /\ [][NextSync]_vars

-----------------------------------------------------------------------------
(* Properties of the classifier, checked under SpecRisk.                   *)

\* the drafts' own classifier, calculateRiskLevel
OfCalculateRiskLevel == rc.called /\ variant \in Variants

\* milliseconds between lastUpdateTime and the clock reading of the call
Elapsed == rc.at - rc.time.t

\* C3: the classifier is total: for every status of the closed set and every
\* lastUpdateTime, missing and null included, and for a missing status too,
\* it returns one of green, yellow, red and never throws.
ClassifierTotal ==
    (rc.called /\ rc.status \in Statuses \cup {UNDEFINED})
        => rc.risk \in RiskLevels

RiskByStatusAlone ==
    OfCalculateRiskLevel =>
        /\ rc.status \in {"exception", "delivery_failed", "lost"} => rc.risk = "red"
        /\ rc.status \in {"delivered", "out_for_delivery"} => rc.risk = "green"
        /\ rc.status = "unknown" => rc.risk = "yellow"

\* witness of C5: a delivered shipment whose last update is the oldest tried
DeliveredLongAgo ==
    /\ OfCalculateRiskLevel /\ rc.status = "delivered"
    /\ rc.time = DateAt(T0 - MaxAgeHours * MsPerHour)
    /\ rc.risk = "green"

-----------------------------------------------------------------------------
(* Properties of checkTrackingStatus, checked under Spec.                  *)

Returned == pc = "done" /\ result.returned
LastRequest == log[Len(log)]

\* the fallback of the catch block, as far as C1 describes it
IsFallback ==
    /\ result.status = "unknown" /\ result.riskLevel = "yellow"
    /\ result.location = NULL
    /\ result.error \notin {ABSENT, NULL, ""}

\* a failed request: network error, unparsable body, non-2xx answer, an error
\* code of the provider, or a body without the data asked for
Failed(e) ==
    \/ e.net = "reject" \/ ~e.json \/ ~e.httpOk \/ e.code # 0
    \/ ~e.hasData \/ e.items = 0

LastRequestThrows ==
    LET e == LastRequest IN
    \/ e.net = "reject" \/ ~e.json
    \/ e.req \in {"create", "get", "list"} /\ ~e.httpOk
    \/ e.req \in {"create", "get"} /\ variant = "aftership_v4" /\ ~e.hasData
    \/ e.req = "list" /\ (~e.hasData \/ e.items = 0)
    \/ e.req = "gettrackinfo" /\ e.code # 0

ResultInClosedSets ==
    Returned => (result.status \in Statuses /\ result.riskLevel \in RiskLevels)

\* witness of C2: a provider token outside the normalizer's table, on the
\* success path
UnmappedTokenReturned ==
    /\ Returned /\ log # << >> /\ ~LastRequest.threw
    /\ LastRequest.tag = "NotFound" /\ variant = "aftership_v4"
    /\ result.status = "unknown" /\ result.error = ABSENT

\* C7: in every result returned by checkTrackingStatus, riskLevel is the
\* classifier of the draft applied to the status and the lastUpdate of that
\* same result, at the clock reading of the check.
RiskIsClassifierOfResult ==
    Returned => result.riskLevel = calculateRiskLevel(result.status, result.lastUpdate)

\* witness of C7: a shipment in transit whose latest checkpoint is 73 hours
\* old while the tracking itself is older, classified red
StaleCheckpointClassified ==
    /\ Returned /\ log # << >> /\ ~LastRequest.threw
    /\ result.status = "in_transit"
    /\ result.lastUpdate = DateAt(T0 - 73 * MsPerHour)
    /\ result.riskLevel = "red"

\* C9: without an API key checkTrackingStatus makes no provider request and
\* returns the mock record: status in_transit, riskLevel green, a location
\* that is not null and no error field, for every tracking number and
\* carrier hint.
NoKeyNoRequest ==
    (variant \in ProviderVariants /\ ~apiKey) =>
        /\ pc \in {"idle", "done"} /\ log = << >>
        /\ Returned =>
              /\ result.status = "in_transit" /\ result.riskLevel = "green"
              /\ result.location \notin {NULL, UNDEFINED, ABSENT}
              /\ result.error = ABSENT

\* witness of C9: a check without a key, of a number no carrier pattern
\* matches and without a carrier hint
MockRecordReturned ==
    /\ variant = "track17" /\ ~apiKey /\ Returned
    /\ trackingNumber = TN_garbage /\ carrier = NULL
    /\ result.status = "in_transit" /\ log = << >>

\* the first request was answered "already exists" (AfterShip) or with a
\* non-zero register code (17TRACK), and the last request, a fetch, succeeded
FetchedAfterAlreadyExists ==
    /\ Returned /\ Len(log) >= 2
    /\ \/ log[1].req = "create" /\ log[1].json /\ ~log[1].httpOk
          /\ log[1].code = AlreadyExistsCode
       \/ log[1].req = "register" /\ log[1].json /\ log[1].code # 0
    /\ LastRequest.req \in {"get", "list", "gettrackinfo"}
    /\ ~Failed(LastRequest)

\* C10: when the provider answers the create or register request with
\* "already exists" and the fetch of the existing tracking succeeds,
\* checkTrackingStatus returns the normalized result of the fetch, with no
\* error field.
AlreadyExistsIsSuccess ==
    FetchedAfterAlreadyExists => result.error = ABSENT

-----------------------------------------------------------------------------
(* Properties of detectCarrier, checked under SpecDetect.                  *)

CarrierSlugs == {"usps", "ups", "fedex", "dhl"}

\* no pattern of any implementation matches: not all digits, not UPS-shaped
MatchesNothing(tn) ==
    /\ ~AllDigits(stripSpaces(tn), 1, NoLimit)
    /\ ~UpsShape(stripSpaces(tn), TRUE)
    /\ ~PrefixedDigits(tn, {<<"9","4">>, <<"4","2">>}, 1, NoLimit)

\* C11: every detectCarrier implementation is total and never returns null
\* or "unknown": for every tracking number, the empty string included, it
\* returns a carrier slug, and "usps" whenever no pattern matches.
DetectAlwaysSlug ==
    detected.called =>
        /\ detected.value \in CarrierSlugs
        /\ MatchesNothing(detected.tn) => detected.value = "usps"

\* C12: every detectCarrier implementation returns "ups" for "1Z" followed by
\* exactly 16 alphanumeric characters, in whatever case.
UpsAnyCase ==
    (detected.called /\ UpsShape(detected.tn, TRUE)) => detected.value = "ups"

-----------------------------------------------------------------------------
(* Further properties of checkTrackingStatus, checked under Spec.          *)

\* the keys of the normalizer's statusMap
MappedTokens ==
    IF variant = "track17"
    THEN {"NotFound", "InfoReceived", "InTransit", "OutForDelivery",
          "AvailableForPickup", "Delivered", "Exception", "Expired"}
    ELSE {"Pending", "InfoReceived", "InTransit", "OutForDelivery", "AttemptFail",
          "Delivered", "Exception", "Expired", "AvailableForPickup"}

\* the last request succeeded and its record went through the normalizer
NormalizedLastAnswer ==
    /\ Returned /\ log # << >> /\ ~Failed(LastRequest)
    /\ LastRequest.req \in {"create", "get", "list", "gettrackinfo"}

\* C14: normalizing a provider record whose status token is not in the
\* normalizer's mapping table, an absent token included, never raises and
\* yields status unknown and riskLevel yellow.
UnmappedTokenGivesUnknown ==
    (NormalizedLastAnswer /\ LastRequest.tag \notin MappedTokens) =>
        /\ result.error = ABSENT
        /\ result.status = "unknown" /\ result.riskLevel = "yellow"

\* C15: the carrier of every result returned by checkTrackingStatus is a
\* lower-case carrier slug or "unknown", on the success, mock and fallback
\* paths, whatever the case of the caller's carrier hint.
CarrierIsLowerCase ==
    Returned => result.carrier = toLowerCase(result.carrier)

\* C19: one checkTrackingStatus call makes at most two provider requests, one
\* create or register and one fetch, and issues no request twice.
AtMostTwoRequests ==
    /\ Len(log) <= 2
    /\ \A i, j \in 1..Len(log) : i # j => log[i].req # log[j].req

-----------------------------------------------------------------------------
(* Properties of getMessageTemplate, checked under SpecTemplate.           *)

Tones == {"urgent", "reassuring", "positive", "neutral"}

\* C16: getMessageTemplate follows its decision table, keyed first on the
\* risk level and then on the status: red with exception, delivery_failed,
\* lost or unknown is urgent; yellow with in_transit or pre_transit is
\* reassuring; otherwise delivered and out_for_delivery are positive (the
\* delivered subject contains "delivered"), in_transit is neutral and every
\* other combination gets the generic neutral template.  For every status
\* and risk level the tone is one of the four and copyable is true.
TemplateDecisionTable ==
    template.called =>
        /\ template.out.tone \in Tones /\ template.out.copyable
        /\ (template.status \in Statuses /\ template.riskLevel \in RiskLevels) =>
             LET st == template.status
                 rk == template.riskLevel
                 out == template.out
             IN  /\ out.tone =
                       IF rk = "red" /\ st \in {"exception", "delivery_failed",
                                                "lost", "unknown"} THEN "urgent"
                       ELSE IF rk = "yellow" /\ st \in {"in_transit", "pre_transit"}
                            THEN "reassuring"
                       ELSE IF st \in {"delivered", "out_for_delivery"} THEN "positive"
                       ELSE "neutral"
                 /\ (st = "delivered") =>
                       \E i \in 1..Len(out.subject) : out.subject[i] = "delivered"
                 /\ (out.tone = "neutral" /\ st # "in_transit") =>
                       out.subject = << "Update", "on", "your", "order",
                                       template.orderId >>

\* witness of C16: a delivered green order X gets the positive template
\* whose subject says delivered
DeliveredIsPositive ==
    /\ template.called /\ template.status = "delivered"
    /\ template.riskLevel = "green" /\ template.orderId = "X"
    /\ template.out.tone = "positive"
    /\ template.out.subject = << "Your", "order", "X", "has", "been", "delivered", "!" >>

-----------------------------------------------------------------------------
(* Termination of checkTrackingStatus, checked under SpecLive.             *)

\* C17: every provider request of checkTrackingStatus is bounded by a
\* timeout: even if the provider never answers, the call eventually returns,
\* and it returns the failure fallback.
EveryRequestTimesOut ==
    Waiting ~> (pc = "done" /\ result.returned)

-----------------------------------------------------------------------------
(* Properties of the routes that check stored orders, under SpecOrders.    *)

\* the sweep has answered with its summary
SweepDone == cron.phase = "done" /\ ~cron.failed

\* what the sweep left of the order of its k-th outcome: the update of the
\* loaded row by the order's own result, or the row as it was loaded
LeftBySweep(k) ==
    LET o == cron.outcomes[k]
    IN IF o.kind = "checked"
       THEN orders[o.id] = updateOrder(cron.orders[o.id], cron.orders[o.id], o.trackingResult)
       ELSE orders[o.id] = cron.orders[o.id]

\* what the bulk check left of its k-th order, in the dashboard's list and in
\* the table: the row its own answer carried, or the row as it was
LeftByBulk(k) ==
    LET id == bulk.orderIds[k]
        res == bulk.results[k]
    IN /\ res.status = "fulfilled" /\ res.hasOrder
            => bulk.view[id] = res.order /\ orders[id] = res.order
       /\ ~(res.status = "fulfilled" /\ res.hasOrder) => bulk.view[id] = bulk.before[id]
       /\ res.status = "fulfilled" /\ ~res.hasOrder => orders[id] = bulk.before[id]

\* C18: checks are independent.  In the cron sweep a failure while checking
\* or persisting one order never ends the run: the run fails only when no
\* order was loaded, every selected order gets its outcome in turn, each
\* order's row is what its own outcome makes it, and totalChecked + errors is
\* the number of selected orders.  In the bulk check checked + failed is the
\* number of selected orders, each selected order is left as its own answer
\* says, and the orders not selected are left alone.
ChecksAreIndependent ==
    /\ cron.phase = "done" /\ cron.failed => cron.selected = << >>
    /\ cron.phase \in {"check", "update", "done"} =>
          /\ \A k \in 1..Len(cron.outcomes) :
                cron.outcomes[k].id = cron.selected[k] /\ LeftBySweep(k)
          /\ cron.checked + cron.errors = Len(cron.outcomes)
          /\ \A id \in OrderKeys :
                (\A k \in 1..Len(cron.outcomes) : cron.outcomes[k].id # id)
                    => orders[id] = cron.orders[id]
    /\ SweepDone =>
          /\ Len(cron.outcomes) = Len(cron.selected)
          /\ cron.summary.totalChecked + cron.summary.errors = Len(cron.selected)
    /\ bulk.phase = "done" =>
          /\ bulk.checked + bulk.failed = Len(bulk.orderIds)
          /\ \A k \in 1..Len(bulk.orderIds) : LeftByBulk(k)
          /\ \A id \in OrderKeys :
                (\A k \in 1..Len(bulk.orderIds) : bulk.orderIds[k] # id)
                    => bulk.view[id] = bulk.before[id] /\ orders[id] = bulk.before[id]

\* a sweep over two orders that counted one of them checked and one failed
SweepSurvivesFailure ==
    /\ SweepDone /\ Len(cron.selected) = 2
    /\ cron.outcomes[1].kind \in {"check_failed", "update_failed"}
    /\ cron.outcomes[2].kind = "checked"
    /\ cron.summary.totalChecked = 1 /\ cron.summary.errors = 1

\* POST /:id/check has answered 200 for this order
Succeeded(id) == request[id].phase = "responded" /\ request[id].code = 200

\* the events this request added to the OrderEvent table
Written(id) ==
    SubSeq(orderEvent, request[id].at + 1, request[id].at + request[id].count)

\* the events of one type among them
WrittenOf(id, type) == SelectSeq(Written(id), LAMBDA e : e.type = type)

\* the stored row carries the status and the risk level of the result
StoredIsResult(id) ==
    /\ orders[id].lastStatus = request[id].trackingResult.status
    /\ orders[id].riskLevel = request[id].trackingResult.riskLevel

\* the events the request should have added: one tracking_checked, one
\* status_changed exactly when the status differs from the status the order
\* was loaded with, one risk_changed exactly when the risk level does, each
\* from the old value to the new one
EventsAsDescribed(id) ==
    LET o == request[id].order
        r == request[id].trackingResult
    IN /\ Len(WrittenOf(id, "tracking_checked")) = 1
       /\ WrittenOf(id, "status_changed") =
             IF o.lastStatus # r.status
             THEN << Event(id, "status_changed", o.lastStatus, r.status) >> ELSE << >>
       /\ WrittenOf(id, "risk_changed") =
             IF o.riskLevel # r.riskLevel
             THEN << Event(id, "risk_changed", o.riskLevel, r.riskLevel) >> ELSE << >>

\* C20 as the specification states it: after a successful check the stored
\* status and risk level are the result's and the events are logged
SuccessfulCheckLogsEvents ==
    \A id \in OrderKeys : Succeeded(id) => StoredIsResult(id) /\ EventsAsDescribed(id)

\* C20: after a successful check the stored status and risk level are the
\* result's; the events are the described ones when the event write
\* succeeded, and none is logged when it failed, which does not fail the check
SuccessfulCheckLogsEventsIfWritten ==
    \A id \in OrderKeys :
        Succeeded(id) =>
            /\ StoredIsResult(id)
            /\ request[id].logged => EventsAsDescribed(id)
            /\ ~request[id].logged => Written(id) = << >>

\* a successful check that found the stored status again and logged so
CheckWithoutStatusChange ==
    \E id \in OrderKeys :
        /\ Succeeded(id) /\ request[id].logged
        /\ request[id].order.lastStatus = request[id].trackingResult.status
        /\ request[id].order.riskLevel = request[id].trackingResult.riskLevel
        /\ Written(id) = << Event(id, "tracking_checked", "in_transit", "usps") >>

-----------------------------------------------------------------------------
(* Properties of the normalizers, checked under SpecNormalize.             *)

\* a normalizer was called and returned a result
Normalized == normalizerCall.called /\ ~normalizerCall.out.threw

\* the events of the record the normalizer was given, in the provider's order
\* (AfterShip lists checkpoints oldest first), with the fields the claims name
EventsGiven ==
    LET r == normalizerCall.record IN
    CASE normalizerCall.impl = "mock" ->
            [i \in 1..Len(r.tracking_details) |->
                [time |-> r.tracking_details[i].datetime,
                 city |-> r.tracking_details[i].tracking_location.city,
                 state |-> r.tracking_details[i].tracking_location.state,
                 country |-> ABSENT]]
      [] normalizerCall.impl = "track17" ->
            IF r.track_info.defined /\ r.track_info.latest_event.defined
            THEN LET e == r.track_info.latest_event
                 IN << [time |-> IF Truthy(e.time_utc) THEN e.time_utc ELSE e.time_iso,
                        city |-> e.address.city, state |-> e.address.state,
                        country |-> e.address.country] >>
            ELSE << >>
      [] OTHER ->
            [i \in 1..Len(r.checkpoints) |->
                [time |-> r.checkpoints[i].checkpoint_time,
                 city |-> r.checkpoints[i].city, state |-> r.checkpoints[i].state,
                 country |-> r.checkpoints[i].country_iso3]]

\* the event timestamps the record carries
EventTimestamps ==
    {EventsGiven[i].time.t : i \in {j \in 1..Len(EventsGiven) : EventsGiven[j].time.k = "date"}}

\* C21: the lastUpdate of a normalized result is the timestamp of the most
\* recent event of the provider record, and the time of the check when the
\* record carries no event timestamp, in which case an in_transit record is
\* classified green.
LastUpdateIsNewestEventOrNow ==
    Normalized =>
        LET out == normalizerCall.out.value IN
        IF EventTimestamps # {}
        THEN out.lastUpdate = DateAt(CHOOSE t \in EventTimestamps :
                                        \A u \in EventTimestamps : u <= t)
        ELSE /\ out.lastUpdate = DateAt(now)
             /\ out.status = "in_transit" => out.riskLevel = "green"

\* the latest event of the record: the first of the first draft's
\* tracking_details, the last checkpoint of an AfterShip tracking
LatestEvent ==
    IF normalizerCall.impl = "mock" THEN EventsGiven[1]
    ELSE EventsGiven[Len(EventsGiven)]

\* C22: the location of a normalized result is the city, state and country of
\* the latest checkpoint that are present, in that order, joined with ", ";
\* it is null when none is present or there is no checkpoint.  In every
\* normalizer.
LocationIsJoinedFields ==
    Normalized =>
        normalizerCall.out.value.location =
            IF EventsGiven = << >> THEN NULL
            ELSE Or(join(push(push(push(<< >>, LatestEvent.city), LatestEvent.state),
                              LatestEvent.country)), NULL)

-----------------------------------------------------------------------------
(* Properties of POST /api/orders, checked under SpecLimit.                *)

\* C23: under any interleaving of concurrent POST /api/orders requests of one
\* user who is not on the pro plan, the orders the user has created in the
\* calendar month and monthlyOrderCount never exceed FREE_ORDER_LIMIT, and a
\* request refused for a validation error or a duplicate orderId has not
\* written monthlyOrderCount.
FreePlanNeverExceedsLimit ==
    /\ account.exists /\ account.planType # "pro" =>
          /\ post.thisMonth <= FREE_ORDER_LIMIT
          /\ account.monthlyOrderCount <= FREE_ORDER_LIMIT
    /\ \A p \in PostIds :
          post.req[p].phase = "responded" /\ post.req[p].code \in {400, 409}
              => ~post.req[p].wrote

\* the risk_changed events of an order in creation order
riskChanges(id) ==
    SelectSeq(orderEvent, LAMBDA e : e.orderId = id /\ e.type = "risk_changed")

\* no handler is between two of its awaits
Quiet ==
    /\ \A id \in OrderKeys : request[id].phase \in {"idle", "responded"}
    /\ cron.phase \in {"idle", "done"}

\* C24: whenever no handler is in the middle of a check, every order's
\* risk_changed events form a chain: each from is the previous to, the first
\* from is the riskLevel the order was created with, and the last to is the
\* stored riskLevel
RiskChangesFormChain ==
    Quiet =>
        \A id \in OrderKeys :
            LET es == riskChanges(id)
            IN /\ \A k \in 1..Len(es) :
                      es[k].a = IF k = 1 THEN createOrder(NULL).riskLevel ELSE es[k - 1].b
               /\ orders[id].riskLevel =
                      IF es = << >> THEN createOrder(NULL).riskLevel ELSE es[Len(es)].b

\* C25: no step of any check replaces a stored known carrier slug by
\* anything but a known carrier slug
KnownCarrierIsKept ==
    [][\A id \in OrderKeys :
          orders[id].carrier \in CarrierSlugs => orders'[id].carrier \in CarrierSlugs]_vars

\* C26: whenever the classifier has returned red for a status of the closed
\* set, the template chosen for that status and red has tone urgent
RedResultGetsUrgentTemplate ==
    (rc.called /\ rc.status \in Statuses /\ rc.risk = "red")
        => getMessageTemplate(rc.status, rc.risk, "X").tone = "urgent"

\* subscription_expired has been processed and no subscription_created since
ExpiredSinceCreated ==
    \E k \in 1..Len(post.events) :
        /\ post.events[k] = Handled("subscription_expired", 200)
        /\ \A j \in (k + 1)..Len(post.events) :
               post.events[j] # Handled("subscription_created", 200)

\* C27: after any sequence of signed webhook events a user on planType pro
\* has a subscriptionId, and a user whose subscription has expired is on
\* planType free until a subscription_created is processed
ProHasSubscription ==
    /\ (account.exists /\ account.planType = "pro") => account.subscriptionId # NULL
    /\ ExpiredSinceCreated => account.planType = "free"

\* the order is in a store of another user than userId
Foreign(userId, id) == storeId[id] \in DOMAIN Stores /\ Stores[storeId[id]] # userId

\* a step leaves the order, its store and its events as they were
Untouched(id) ==
    /\ orders'[id] = orders[id] /\ storeId'[id] = storeId[id]
    /\ SelectSeq(orderEvent', LAMBDA e : e.orderId = id)
         = SelectSeq(orderEvent, LAMBDA e : e.orderId = id)

\* what the handlers do with another user's order, the answers allowed to
\* their requests for it being codes
ForeignOrdersAnswered(codes) ==
    /\ \A id \in OrderKeys :
          (/\ access' # access /\ access'.op \in {"get", "delete"} /\ access'.id = id
           /\ access'.user # NULL /\ Foreign(access'.user, id))
          => access'.code \in codes /\ Untouched(id)
    /\ \A id \in OrderKeys :
          (/\ request'[id] # request[id] /\ request[id].user # NULL
           /\ Foreign(request[id].user, id))
          => /\ request'[id].phase \in {"responded", "idle"}
             /\ request'[id].phase = "responded" => request'[id].code \in codes
             /\ Untouched(id)
    /\ (access' # access /\ access'.op = "list" /\ access'.user # NULL)
          => /\ \A id \in access'.body :
                    storeId'[id] \in DOMAIN Stores /\ Stores[storeId'[id]] = access'.user
             /\ \A id \in OrderKeys : Foreign(access'.user, id) => Untouched(id)

\* C28 as stated: a request of user A for an order in a store of user B is
\* answered 404 and leaves the order, its store and its events unchanged,
\* and A's list holds no order of a store of B
ForeignOrderIs404 == [][ForeignOrdersAnswered({404})]_vars

\* C28: a request of user A for an order in a store of user B is answered
\* 404, or 500 when a database call of the handler fails, never with the
\* order; it leaves the order, its store and its events unchanged; and A's
\* list holds only orders of A's stores
ForeignOrderIsNeverServed == [][ForeignOrdersAnswered({404, 500})]_vars

\* user A has asked to delete an order of user B's store and got 404
ForeignDeleteRefused ==
    /\ access.phase = "responded" /\ access.op = "delete" /\ access.code = 404
    /\ access.user = "userA" /\ storeId[access.id] = "store_B"
    /\ \E id \in OrderKeys :
          /\ request[id].phase = "responded" /\ request[id].code = 404
          /\ request[id].user = "userA" /\ storeId[id] = "store_B"

\* a sweep has written the row: its lastUpdateAt is of this behaviour
checkedBySweep(id) ==
    orders[id].lastUpdateAt.k = "date" /\ orders[id].lastUpdateAt.t >= T0

\* C29: under repeated sweeps whose checks and updates succeed, every order
\* whose lastStatus is not "delivered" is eventually checked by a sweep,
\* the orders that were never checked included
OpenOrderIsEventuallySwept ==
    \A id \in OrderKeys : (orders[id].lastStatus # "delivered") ~> checkedBySweep(id)

\* the request has answered 200 with its counts
Synced(r) == etsy.run[r].phase = "done" /\ etsy.run[r].code = 200

\* C30: no orderId is created twice; a sync that completes has counted
\* every receipt as imported or skipped and leaves every receipt that has a
\* tracking code in the table; and a sync that arrives after a completed
\* one over the same receipts imports nothing
SyncIsIdempotent ==
    /\ \A k \in DOMAIN etsy.created :
          etsy.created[k] <= 1 /\ (etsy.created[k] = 1 => k \in etsy.table)
    /\ \A r \in SyncRuns :
          Synced(r) =>
             /\ etsy.run[r].imported + etsy.run[r].skipped = Len(Receipts)
             /\ \A j \in 1..Len(Receipts) :
                   Receipts[j].tracking_code \notin {ABSENT, NULL}
                       => Receipts[j].receipt_id \in etsy.table
             /\ etsy.run[r].after # {} => etsy.run[r].imported = 0

\* both syncs have completed one after the other: the first imported the
\* two receipts that have a tracking code, the second skipped all four
SecondSyncImportsNothing ==
    /\ Synced("first") /\ Synced("second") /\ etsy.run["second"].after = {"first"}
    /\ etsy.run["first"].imported = 2 /\ etsy.run["first"].skipped = 2
    /\ etsy.run["second"].imported = 0 /\ etsy.run["second"].skipped = Len(Receipts)

====
